---- MODULE Spec2Model ----
(***************************************************************************)
(* Workflow orchestration of the agent pipelines: the retrieval /          *)
(* evaluation / rewrite graph of agents/rag_agent.py and the plan /        *)
(* research / evaluate / finalize graph of agents/research_agent.py, each  *)
(* run node by node under the step ceiling of graph.invoke.                *)
(***************************************************************************)
EXTENDS Integers, Sequences, FiniteSets, TLC

VARIABLES
    pipeline,   \* which process_message is active: "none", "rag", "research"
    status,     \* "idle", "running", "done", "exhausted", "failed"
    current,    \* the node the engine executes next, or END
    steps,      \* node executions of the current run (the engine's step count)
    state,      \* the graph state of the current run (a record of channels)
    update,     \* the partial update returned by the node executed last
    question,   \* the question the node executed last handed to its delegate
    result      \* what the process_message call returned ("none" while it runs)

vars == <<pipeline, status, current, steps, state, update, question, result>>

(***************************************************************************)
(* Bounds of the model.                                                    *)
(***************************************************************************)
MaxHistory == 4      \* longest caller-supplied chat_history
MaxToolCalls == 1    \* most tool calls one generate_query_or_respond response asks for
MaxQuestions == 3    \* most questions in a research plan

(***************************************************************************)
(* Program constants.                                                      *)
(***************************************************************************)
RecursionLimit == 30       \* config = {"recursion_limit": 30}
DefaultMaxRetries == 3     \* max_retries=3 in process_message
DefaultRecursionLimit == 25  \* the engine's ceiling when invoke is given none

END == "__end__"
NoUpdate == <<>>

\* The retry limits a run is seeded with. process_message passes 3; the nodes
\* read the limit from the state, so the graph is also run with the limit of the
\* documented scenario (2), with none (0), and with the smallest limit whose
\* rewrite loop does not fit under the step ceiling (7).
RetryLimits == {0, 2, DefaultMaxRetries, 7}

Roles == {"user", "assistant", "system"}

RECURSIVE SeqsUpTo(_, _)
SeqsUpTo(S, n) ==
    IF n = 0 THEN {<<>>}
    ELSE LET shorter == SeqsUpTo(S, n - 1)
         IN  shorter \cup {Append(s, x) : s \in {t \in shorter : Len(t) = n - 1}, x \in S}

Histories == SeqsUpTo(Roles, MaxHistory)

Last(s) == s[Len(s)]

IsPrefix(s, t) == Len(s) <= Len(t) /\ SubSeq(t, 1, Len(s)) = s

(***************************************************************************)
(* Messages. type is the message class (HumanMessage, AIMessage,           *)
(* ToolMessage), content stands for its text, tool_calls is the number of  *)
(* tool calls an AIMessage carries, and at is the step that produced it    *)
(* (0 for the messages process_message seeds the run with).                *)
(***************************************************************************)
HumanMessage(c) == [type |-> "human", content |-> c, tool_calls |-> 0, at |-> 0]
AIMessage(c, n, k) == [type |-> "ai", content |-> c, tool_calls |-> n, at |-> k]
ToolMessage(k) == [type |-> "tool", content |-> "docs", tool_calls |-> 0, at |-> k]

\* _convert_history_to_messages: user and assistant entries are converted in
\* order; an entry with any other role is dropped.
RECURSIVE ConvertHistory(_)
ConvertHistory(h) ==
    IF h = <<>> THEN <<>>
    ELSE LET rest == ConvertHistory(Tail(h))
         IN  IF Head(h) = "user" THEN <<HumanMessage("h_user")>> \o rest
             ELSE IF Head(h) = "assistant" THEN <<AIMessage("h_asst", 0, 0)>> \o rest
             ELSE rest

(***************************************************************************)
(* State merge: the messages channel has the add_messages reducer, every   *)
(* other channel keeps the last value written to it.                       *)
(***************************************************************************)
\* A reducer that puts the messages a node returns in front of the log.
AddMessagesFirst(left, right) == right \o left

\* A reducer that keeps the update's messages alone.
AddMessagesReplacing(left, right) == right

\* The messages the nodes return are new messages (none carries the id of a
\* message already in the log), which add_messages appends in order.
AddMessages(left, right) == left \o right

\* The declared default of a channel of either state class.
ChannelDefault(f) ==
    CASE f = "feedback" -> ""
      [] f = "is_sufficient" -> FALSE
      [] f = "retry_count" -> 0
      [] f = "max_retries" -> 3
      [] f = "current_query_index" -> 0
      [] f = "next_step" -> "research_manager"
      [] OTHER -> "None"

\* A merge under which a channel the update does not name falls back to its
\* declared default.
MergeResetting(s, u) ==
    [f \in DOMAIN s |->
        IF f \in DOMAIN u
        THEN IF f = "messages" THEN AddMessages(s.messages, u.messages) ELSE u[f]
        ELSE IF f \in {"messages", "research_plan", "report"} THEN s[f]
        ELSE ChannelDefault(f)]

Merge(s, u) ==
    [f \in DOMAIN s |->
        IF f \in DOMAIN u
        THEN IF f = "messages" THEN AddMessages(s.messages, u.messages) ELSE u[f]
        ELSE s[f]]

(***************************************************************************)
(* Retrieval / evaluation / rewrite pipeline (AgenticRAGChat).             *)
(***************************************************************************)
NoQuestion == [by |-> "none", msg |-> HumanMessage("none")]

\* The question taken by the "last user message" scan alone.
UserQuestionByScan(s) ==
    LET humans == SelectSeq(s.messages, LAMBDA m : m.type = "human")
    IN  IF humans # <<>>
        THEN [by |-> "last_user", msg |-> Last(humans)]
        ELSE [by |-> "last", msg |-> Last(s.messages)]

\* The "current user question" of evaluate, rewrite and synthesize: the message
\* at current_query_index when that is an index of messages (0-based in the
\* code, so position current_query_index + 1 here), otherwise the last
\* HumanMessage, otherwise the last message.
UserQuestion(s) ==
    LET humans == SelectSeq(s.messages, LAMBDA m : m.type = "human")
    IN  IF s.current_query_index < Len(s.messages)
        THEN [by |-> "index", msg |-> s.messages[s.current_query_index + 1]]
        ELSE IF humans # <<>>
             THEN [by |-> "last_user", msg |-> Last(humans)]
             ELSE [by |-> "last", msg |-> Last(s.messages)]

\* Each node yields the update it returns, the state as its body leaves it
\* (bodies that mutate a structured field in place change it here), and the
\* question it hands to its delegate.
NodeResult(s, u, q) == [inplace |-> s, update |-> u, question |-> q]

\* _generate_query_or_respond, were it to ask about the message at
\* current_query_index as the other nodes do.
GenerateQueryOrRespondByIndex(s, k, n) ==
    NodeResult(s,
        [messages |-> <<AIMessage(IF n > 0 THEN "tool_call" ELSE "direct", n, k)>>],
        UserQuestion(s))

\* _generate_query_or_respond: the delegate answers the latest message, asking
\* for n tool calls (n = 0: it answers directly).
GenerateQueryOrRespond(s, k, n) ==
    NodeResult(s,
        [messages |-> <<AIMessage(IF n > 0 THEN "tool_call" ELSE "direct", n, k)>>],
        [by |-> "latest", msg |-> Last(s.messages)])

\* A tool node that returns no message.
RetrieveDocumentsNone(s, k) == NodeResult(s, [messages |-> <<>>], NoQuestion)

\* ToolNode(self.tools): one ToolMessage per tool call of the last message.
RetrieveDocuments(s, k) ==
    NodeResult(s,
        [messages |-> [i \in 1..Last(s.messages).tool_calls |-> ToolMessage(k)]],
        NoQuestion)

\* _evaluate_documents with the retry test off by one (> for >=).
EvaluateDocumentsLate(s, judged) ==
    IF s.retry_count > s.max_retries
    THEN NodeResult(s, [is_sufficient |-> TRUE, feedback |-> "max_retries_reached"],
                    NoQuestion)
    ELSE NodeResult(s, [is_sufficient |-> judged, feedback |-> "evaluator_feedback"],
                    UserQuestion(s))

\* _evaluate_documents: at the retry limit the verdict is forced and the
\* evaluator is not called; otherwise the verdict is the evaluator's.
EvaluateDocuments(s, judged) ==
    IF s.retry_count >= s.max_retries
    THEN NodeResult(s, [is_sufficient |-> TRUE, feedback |-> "max_retries_reached"],
                    NoQuestion)
    ELSE NodeResult(s, [is_sufficient |-> judged, feedback |-> "evaluator_feedback"],
                    UserQuestion(s))

\* _synthesize_answer
SynthesizeAnswer(s, k) ==
    NodeResult(s, [messages |-> <<AIMessage("answer", 0, k)>>], UserQuestion(s))

\* _query_rewriter that forgets to count the retry.
QueryRewriterUncounted(s, k) ==
    NodeResult(s, [messages |-> <<AIMessage("rewritten", 0, k)>>], UserQuestion(s))

\* _query_rewriter
QueryRewriter(s, k) ==
    NodeResult(s,
        [messages |-> <<AIMessage("rewritten", 0, k)>>,
         retry_count |-> s.retry_count + 1],
        UserQuestion(s))

\* tools_condition, were it to send every AI message to the tools.
ToolsConditionAnyAI(s) ==
    IF Last(s.messages).type = "ai" THEN "tools" ELSE END

\* tools_condition: "tools" when the last message carries tool calls.
ToolsCondition(s) ==
    IF Last(s.messages).type = "ai" /\ Last(s.messages).tool_calls > 0
    THEN "tools" ELSE END

\* The graph with sufficient documents leading from evaluation straight to END.
RagNextEvaluateToEnd(node, s) ==
    CASE node = "generate_query_or_respond" ->
            IF ToolsCondition(s) = "tools" THEN "retrieve_documents" ELSE END
      [] node = "retrieve_documents" -> "evaluate_documents"
      [] node = "evaluate_documents" ->
            IF s.is_sufficient THEN END ELSE "query_rewriter"
      [] node = "query_rewriter" -> "generate_query_or_respond"
      [] node = "synthesize_answer" -> END

\* The graph with the rewriter wired to retrieval instead of generation.
RagNextRewriteToRetrieve(node, s) ==
    CASE node = "generate_query_or_respond" ->
            IF ToolsCondition(s) = "tools" THEN "retrieve_documents" ELSE END
      [] node = "retrieve_documents" -> "evaluate_documents"
      [] node = "evaluate_documents" ->
            IF s.is_sufficient THEN "synthesize_answer" ELSE "query_rewriter"
      [] node = "query_rewriter" -> "retrieve_documents"
      [] node = "synthesize_answer" -> END

\* The edges of _create_graph: the node that follows `node` in state s (the
\* state after the node's update was merged).
RagNext(node, s) ==
    CASE node = "generate_query_or_respond" ->
            IF ToolsCondition(s) = "tools" THEN "retrieve_documents" ELSE END
      [] node = "retrieve_documents" -> "evaluate_documents"
      [] node = "evaluate_documents" ->
            IF s.is_sufficient THEN "synthesize_answer" ELSE "query_rewriter"
      [] node = "query_rewriter" -> "generate_query_or_respond"
      [] node = "synthesize_answer" -> END

\* process_message recording the index after the query was appended.
RagInitialStateAfterAppend(chat_history, limit) ==
    LET history_messages == Append(ConvertHistory(chat_history), HumanMessage("query"))
    IN  [messages |-> history_messages,
         feedback |-> "",
         is_sufficient |-> FALSE,
         retry_count |-> 0,
         max_retries |-> limit,
         current_query_index |-> Len(history_messages)]

\* The initial state process_message builds from the message and the history.
RagInitialState(chat_history, limit) ==
    LET history_messages == ConvertHistory(chat_history)
    IN  [messages |-> Append(history_messages, HumanMessage("query")),
         feedback |-> "",
         is_sufficient |-> FALSE,
         retry_count |-> 0,
         max_retries |-> limit,
         current_query_index |-> Len(history_messages)]

\* process_message, were it to return the first message of the final state.
FinalAnswerFirst(s) == s.messages[1].content

\* What process_message returns for a finished run: the last message's content.
FinalAnswer(s) == Last(s.messages).content

Discarded == [messages |-> <<>>]

RagProcessMessage ==
    /\ status = "idle"
    /\ \E chat_history \in Histories, limit \in RetryLimits :
          state' = RagInitialState(chat_history, limit)
    /\ pipeline' = "rag"
    /\ status' = "running"
    /\ current' = "generate_query_or_respond"
    /\ steps' = 0
    /\ update' = NoUpdate
    /\ question' = NoQuestion
    /\ result' = "none"

\* An engine step whose router reads the state as it was before the node's
\* update was merged.
RagStepRoutingFirst(node, r) ==
    LET merged == Merge(r.inplace, r.update)
        next == IF node = "evaluate_documents"
                THEN RagNext(node, r.inplace) ELSE RagNext(node, merged)
    IN  /\ state' = merged
        /\ update' = r.update
        /\ question' = r.question
        /\ steps' = steps + 1
        /\ current' = next
        /\ status' = IF next = END THEN "done" ELSE "running"
        /\ result' = IF next = END THEN FinalAnswer(merged) ELSE result
        /\ UNCHANGED pipeline

\* One engine step of the RAG graph: run the node, merge its update, route.
RagStep(node, r) ==
    LET merged == Merge(r.inplace, r.update)
        next == RagNext(node, merged)
    IN  /\ state' = merged
        /\ update' = r.update
        /\ question' = r.question
        /\ steps' = steps + 1
        /\ current' = next
        /\ status' = IF next = END THEN "done" ELSE "running"
        /\ result' = IF next = END THEN FinalAnswer(merged) ELSE result
        /\ UNCHANGED pipeline

\* A run whose engine does not stop at the step ceiling.
RagRunningUnbounded(node) ==
    /\ pipeline = "rag"
    /\ status = "running"
    /\ current = node

RagRunning(node) ==
    /\ pipeline = "rag"
    /\ status = "running"
    /\ current = node
    /\ steps < RecursionLimit

RagGenerate ==
    /\ RagRunning("generate_query_or_respond")
    /\ \E n \in 0..MaxToolCalls :
          RagStep("generate_query_or_respond", GenerateQueryOrRespond(state, steps + 1, n))

RagRetrieve ==
    /\ RagRunning("retrieve_documents")
    /\ RagStep("retrieve_documents", RetrieveDocuments(state, steps + 1))

RagEvaluate ==
    /\ RagRunning("evaluate_documents")
    /\ \E judged \in BOOLEAN :
          RagStep("evaluate_documents", EvaluateDocuments(state, judged))

RagRewrite ==
    /\ RagRunning("query_rewriter")
    /\ RagStep("query_rewriter", QueryRewriter(state, steps + 1))

RagSynthesize ==
    /\ RagRunning("synthesize_answer")
    /\ RagStep("synthesize_answer", SynthesizeAnswer(state, steps + 1))

(***************************************************************************)
(* Plan / research / evaluate / finalize pipeline (DeepResearchChat).      *)
(***************************************************************************)
None == "None"

\* The state's research_plan and report before the plan step (None in the code).
NoPlan == [is_none |-> TRUE, topic |-> None, questions |-> <<>>,
           current_question_index |-> 0]
NoReport == [is_none |-> TRUE, executive_summary |-> None, key_findings |-> None,
             detailed_analysis |-> <<>>, limitations |-> None]

\* The plans the research manager's delegate returns. ResearchPlan is the
\* delegate's output schema, so the delegate fills current_question_index and
\* each question's completed flag as well as the questions themselves.
PlanIndexValues == (0 - 1)..(MaxQuestions + 1)

ResearchQuestion(i, done) == [title |-> i, completed |-> done]

ResearchPlan(n, index, done) ==
    [is_none |-> FALSE, topic |-> "query",
     questions |-> [i \in 1..n |-> ResearchQuestion(i, done)],
     current_question_index |-> index]

\* What the specialist agent's last message holds: nothing, text without a
\* URL line, or text with one.
ContentValues == {"", "text", "text_with_url"}

\* The lines of the content that hold "http" and "://".
Sources(content) == IF content = "text_with_url" THEN <<"url_line">> ELSE <<>>

\* Python's list indexing: position (1-based) of index i in a list of n
\* elements, 0 when list[i] raises IndexError.
PyIndex(i, n) ==
    IF 0 <= i /\ i < n THEN i + 1
    ELSE IF i < 0 /\ 0 - n <= i THEN n + i + 1
    ELSE 0

\* research_manager_node
ResearchManagerNode(s, k, plan) ==
    NodeResult(s,
        [messages |-> <<AIMessage("plan_created", 0, k)>>,
         research_plan |-> plan,
         report |-> [NoReport EXCEPT
            !.is_none = FALSE,
            !.detailed_analysis =
                [i \in 1..Len(plan.questions) |->
                    [title |-> plan.questions[i].title, content |-> None,
                     sources |-> <<>>]]]],
        [by |-> "last_user",
         msg |-> Last(SelectSeq(s.messages, LAMBDA m : m.type = "human"))])

\* specialized_research_node does nothing once the index has passed the last
\* question.
ResearchDone(s) ==
    s.research_plan.current_question_index >= Len(s.research_plan.questions)

\* specialized_research_node, were it to mark every question of the plan
\* completed.
SpecializedResearchNodeAll(s, k, content) ==
    IF ResearchDone(s) THEN NodeResult(s, NoUpdate, NoQuestion)
    ELSE
      LET plan == s.research_plan
          at == PyIndex(plan.current_question_index, Len(plan.questions))
          new_plan == [plan EXCEPT
              !.questions = [i \in 1..Len(plan.questions) |->
                                [plan.questions[i] EXCEPT !.completed = TRUE]],
              !.current_question_index = @ + 1]
          new_report == [s.report EXCEPT
              !.detailed_analysis[at].content = content,
              !.detailed_analysis[at].sources = Sources(content)]
      IN  NodeResult([s EXCEPT !.research_plan = new_plan, !.report = new_report],
              [messages |-> <<AIMessage("completed_section", 0, k)>>,
               research_plan |-> new_plan,
               report |-> new_report],
              [by |-> "question", msg |-> HumanMessage("research_question")])

\* specialized_research_node: the question at current_question_index is marked
\* completed, its report section is filled and the index advances, all in place
\* on the plan and report objects of the state, which the update names again.
SpecializedResearchNode(s, k, content) ==
    IF ResearchDone(s) THEN NodeResult(s, NoUpdate, NoQuestion)
    ELSE
      LET plan == s.research_plan
          at == PyIndex(plan.current_question_index, Len(plan.questions))
          new_plan == [plan EXCEPT
              !.questions[at].completed = TRUE,
              !.current_question_index = @ + 1]
          new_report == [s.report EXCEPT
              !.detailed_analysis[at].content = content,
              !.detailed_analysis[at].sources = Sources(content)]
      IN  NodeResult([s EXCEPT !.research_plan = new_plan, !.report = new_report],
              [messages |-> <<AIMessage("completed_section", 0, k)>>,
               research_plan |-> new_plan,
               report |-> new_report],
              [by |-> "question", msg |-> HumanMessage("research_question")])

\* evaluator_node, were it to return its message without next_step.
EvaluatorNodeSilent(s, k) ==
    IF ResearchDone(s)
    THEN NodeResult(s, [messages |-> <<AIMessage("finalizing", 0, k)>>], NoQuestion)
    ELSE NodeResult(s, [messages |-> <<AIMessage("next_section", 0, k)>>], NoQuestion)

\* evaluator_node, were its comparison strict.
EvaluatorNodeStrict(s, k) ==
    IF s.research_plan.current_question_index > Len(s.research_plan.questions)
    THEN NodeResult(s,
            [messages |-> <<AIMessage("finalizing", 0, k)>>, next_step |-> "finalize"],
            NoQuestion)
    ELSE NodeResult(s,
            [messages |-> <<AIMessage("next_section", 0, k)>>, next_step |-> "research"],
            NoQuestion)

\* evaluator_node
EvaluatorNode(s, k) ==
    IF ResearchDone(s)
    THEN NodeResult(s,
            [messages |-> <<AIMessage("finalizing", 0, k)>>, next_step |-> "finalize"],
            NoQuestion)
    ELSE NodeResult(s,
            [messages |-> <<AIMessage("next_section", 0, k)>>, next_step |-> "research"],
            NoQuestion)

\* _format_report: a field that is None (or empty) shows as N/A.
FormatReport(report) ==
    IF report.executive_summary = None THEN "report_with_placeholders"
    ELSE "report"

\* finalizer_node, were two sections enough for it to write the report's
\* fields.
FinalizerNodeTwoParts(s, k, parts) ==
    LET new_report ==
            IF parts >= 2
            THEN [s.report EXCEPT !.executive_summary = "summary",
                                  !.key_findings = "findings",
                                  !.limitations = "limitations"]
            ELSE s.report
    IN  NodeResult([s EXCEPT !.report = new_report],
            [messages |-> <<AIMessage(FormatReport(new_report), 0, k)>>],
            NoQuestion)

\* finalizer_node: the delegate's text split on blank lines gives `parts`
\* sections; with three or more, the report's summary, findings and
\* limitations are written in place. The update names the messages alone.
FinalizerNode(s, k, parts) ==
    LET new_report ==
            IF parts >= 3
            THEN [s.report EXCEPT !.executive_summary = "summary",
                                  !.key_findings = "findings",
                                  !.limitations = "limitations"]
            ELSE s.report
    IN  NodeResult([s EXCEPT !.report = new_report],
            [messages |-> <<AIMessage(FormatReport(new_report), 0, k)>>],
            NoQuestion)

FinalizerParts == 1..4

\* The edges of _create_workflow, were the plan followed by evaluate.
ResearchNextPlanToEvaluate(node, s) ==
    CASE node = "research_manager" -> "evaluate"
      [] node = "specialized_research" -> "evaluate"
      [] node = "evaluate" ->
            IF s.next_step = "research" THEN "specialized_research" ELSE "finalizer"
      [] node = "finalizer" -> END

\* The edges of _create_workflow, were evaluate followed by the finalizer
\* whatever next_step holds.
ResearchNextToFinalizer(node, s) ==
    CASE node = "research_manager" -> "specialized_research"
      [] node = "specialized_research" -> "evaluate"
      [] node = "evaluate" -> "finalizer"
      [] node = "finalizer" -> END

\* The edges of _create_workflow.
ResearchNext(node, s) ==
    CASE node = "research_manager" -> "specialized_research"
      [] node = "specialized_research" -> "evaluate"
      [] node = "evaluate" ->
            IF s.next_step = "research" THEN "specialized_research" ELSE "finalizer"
      [] node = "finalizer" -> END

ResearchInitialState(chat_history) ==
    [messages |-> Append(ConvertHistory(chat_history), HumanMessage("query")),
     research_plan |-> NoPlan,
     report |-> NoReport,
     next_step |-> "research_manager"]

ResearchProcessMessage ==
    /\ status = "idle"
    /\ \E chat_history \in Histories :
          state' = ResearchInitialState(chat_history)
    /\ pipeline' = "research"
    /\ status' = "running"
    /\ current' = "research_manager"
    /\ steps' = 0
    /\ update' = NoUpdate
    /\ question' = NoQuestion
    /\ result' = "none"

ResearchStep(node, r) ==
    LET merged == Merge(r.inplace, r.update)
        next == ResearchNext(node, merged)
    IN  /\ state' = merged
        /\ update' = r.update
        /\ question' = r.question
        /\ steps' = steps + 1
        /\ current' = next
        /\ status' = IF next = END THEN "done" ELSE "running"
        /\ result' = IF next = END THEN FinalAnswer(merged) ELSE result
        /\ UNCHANGED pipeline

ResearchRunning(node) ==
    /\ pipeline = "research"
    /\ status = "running"
    /\ current = node
    /\ steps < DefaultRecursionLimit

ResearchPlanStep ==
    /\ ResearchRunning("research_manager")
    /\ \E n \in 0..MaxQuestions, index \in PlanIndexValues, done \in BOOLEAN :
          ResearchStep("research_manager",
                       ResearchManagerNode(state, steps + 1, ResearchPlan(n, index, done)))

\* questions[current_index] raises IndexError when the index is below -len.
ResearchIndexError(s) ==
    /\ ~ResearchDone(s)
    /\ PyIndex(s.research_plan.current_question_index, Len(s.research_plan.questions)) = 0

ResearchResearch ==
    /\ ResearchRunning("specialized_research")
    /\ ~ResearchIndexError(state)
    /\ \E content \in ContentValues :
          ResearchStep("specialized_research",
                       SpecializedResearchNode(state, steps + 1, content))

ResearchEvaluate ==
    /\ ResearchRunning("evaluate")
    /\ ResearchStep("evaluate", EvaluatorNode(state, steps + 1))

ResearchFinalize ==
    /\ ResearchRunning("finalizer")
    /\ \E parts \in FinalizerParts :
          ResearchStep("finalizer", FinalizerNode(state, steps + 1, parts))

(***************************************************************************)
(* Ends of a run other than reaching END.                                  *)
(***************************************************************************)
StepLimit(p) == IF p = "rag" THEN RecursionLimit ELSE DefaultRecursionLimit

\* The step ceiling: a node is due and the limit of steps was taken, so
\* graph.invoke raises GraphRecursionError. The RAG process_message catches it
\* and, finding "recursion" in its text, returns the tailored answer; the
\* research process_message lets it through to its caller.
Exhausted ==
    /\ status = "running"
    /\ steps >= StepLimit(pipeline)
    /\ status' = "exhausted"
    /\ result' = IF pipeline = "rag" THEN "difficulty_finding" ELSE "raised"
    /\ UNCHANGED <<pipeline, current, steps, state, update, question>>

\* Whether the node due next calls a delegate (a model, a tool, an agent).
CallsDelegate ==
    \/ pipeline = "rag" /\ current # "evaluate_documents"
    \/ pipeline = "rag" /\ current = "evaluate_documents"
                        /\ state.retry_count < state.max_retries
    \/ pipeline = "research" /\ current \in {"research_manager", "finalizer"}
    \/ pipeline = "research" /\ current = "specialized_research" /\ ~ResearchDone(state)

\* The node due raises (its delegate fails, or an index is out of range)
\* before it changed anything. The RAG process_message catches the exception
\* and returns the tailored answer when its text contains "recursion", else the
\* generic one; the research process_message lets it through.
NodeFails ==
    /\ status = "running"
    /\ steps < StepLimit(pipeline)
    /\ CallsDelegate
    /\ \E mentions_recursion \in BOOLEAN :
          result' = IF pipeline # "rag" THEN "raised"
                    ELSE IF mentions_recursion THEN "difficulty_finding"
                    ELSE "encountered_error"
    /\ status' = "failed"
    /\ steps' = steps + 1
    /\ UNCHANGED <<pipeline, current, state, update, question>>

\* process_message returns: the run's state is dropped, the answer stays with
\* the caller.
Return ==
    /\ status \in {"done", "exhausted", "failed"}
    /\ status' = "idle"
    /\ pipeline' = "none"
    /\ current' = "none"
    /\ steps' = 0
    /\ state' = Discarded
    /\ update' = NoUpdate
    /\ question' = NoQuestion
    /\ UNCHANGED result

Init ==
    /\ pipeline = "none"
    /\ status = "idle"
    /\ current = "none"
    /\ steps = 0
    /\ state = Discarded
    /\ update = NoUpdate
    /\ question = NoQuestion
    /\ result = "none"

Next ==
    \/ RagProcessMessage
    \/ RagGenerate
    \/ RagRetrieve
    \/ RagEvaluate
    \/ RagRewrite
    \/ RagSynthesize
    \/ ResearchProcessMessage
    \/ ResearchPlanStep
    \/ ResearchResearch
    \/ ResearchEvaluate
    \/ ResearchFinalize
    \/ Exhausted
    \/ NodeFails
    \/ Return

Spec == Init /\ [][Next]_vars

(***************************************************************************)
(* Properties.                                                             *)
(***************************************************************************)
RagActive == pipeline = "rag" /\ status # "idle"

\* The step taken runs a node to completion (it neither raises nor is the
\* engine's refusal at the ceiling).
NodeRan(node) ==
    /\ status = "running"
    /\ current = node
    /\ steps' = steps + 1
    /\ status' \in {"running", "done"}

\* C1: a RAG run never executes nodes forever: while it runs, every step either
\* executes one more node, the count of executed nodes staying within the
\* step ceiling, and leaves the run running or at END, or ends the run with a
\* failure, which is resource exhaustion exactly when a node is due after the
\* ceiling was reached; and a running run always has such a step to take.
C1_RagRunEnds ==
    /\ [](RagActive /\ status = "running" =>
            ENABLED (RagGenerate \/ RagRetrieve \/ RagEvaluate \/ RagRewrite
                     \/ RagSynthesize \/ Exhausted))
    /\ [][RagActive /\ status = "running" =>
            \/ /\ status' \in {"running", "done"}
               /\ steps' = steps + 1
               /\ steps' <= RecursionLimit
               /\ (status' = "done") = (current' = END)
            \/ status' = "exhausted" /\ steps >= RecursionLimit /\ current # END
            \/ status' = "failed" /\ steps < RecursionLimit]_vars

C1_Witness ==
    /\ pipeline = "rag"
    /\ status = "exhausted"
    /\ steps = RecursionLimit

\* C2: in every state of a RAG run retry_count <= max_retries.
C2_RetryCountBounded ==
    RagActive => state.retry_count <= state.max_retries

C2_Witness ==
    /\ RagActive
    /\ state.max_retries = DefaultMaxRetries
    /\ state.retry_count = state.max_retries
    /\ current = "generate_query_or_respond"

\* C3: when the evaluate node runs with retry_count >= max_retries it sets
\* is_sufficient to true without consulting the evaluator (no question is handed
\* to it, and the node cannot fail on its account), and the node due next is
\* synthesize.
C3_ForcedSynthesis ==
    /\ [](RagActive /\ status = "running" /\ current = "evaluate_documents"
            /\ state.retry_count >= state.max_retries => ~CallsDelegate)
    /\ [][RagActive /\ NodeRan("evaluate_documents")
            /\ state.retry_count >= state.max_retries =>
               /\ state'.is_sufficient
               /\ update'.is_sufficient
               /\ question' = NoQuestion
               /\ current' = "synthesize_answer"]_vars

\* The 4th evaluation of a run with max_retries = 3 has just forced synthesis.
C3_Witness ==
    /\ RagActive
    /\ state.max_retries = 3
    /\ state.retry_count = 3
    /\ current = "synthesize_answer"
    /\ state.is_sufficient
    /\ state.feedback = "max_retries_reached"
    /\ Cardinality({i \in 1..Len(state.messages) : state.messages[i].type = "tool"}) = 4

IsHistoryMessage(m) == m.content \in {"h_user", "h_asst"} /\ m.at = 0

\* C4: in a RAG run current_query_index is the number of converted history
\* messages that precede the triggering user message, and no step of the run
\* changes it.
C4_QueryIndexFixed ==
    /\ [](RagActive =>
            /\ state.current_query_index < Len(state.messages)
            /\ state.messages[state.current_query_index + 1] = HumanMessage("query")
            /\ \A i \in 1..Len(state.messages) :
                  IsHistoryMessage(state.messages[i]) <=> i <= state.current_query_index)
    /\ [][RagActive /\ status' # "idle" =>
            state'.current_query_index = state.current_query_index]_vars

\* Two prior turns, and two rewrite / retrieve cycles later the index is still 4.
C4_Witness ==
    /\ RagActive
    /\ state.current_query_index = 4
    /\ state.retry_count = 2
    /\ Len(state.messages) >= 9
    /\ state.messages[5] = HumanMessage("query")

\* C5: whenever evaluate, rewrite or synthesize reads the current query, it
\* reads it by current_query_index, never by the fallback scans, and what it
\* reads is the triggering user message.
C5_QuestionIsTriggeringMessage ==
    RagActive /\ question.by \notin {"none", "latest"} =>
        /\ question.by = "index"
        /\ question.msg = HumanMessage("query")
        /\ state.current_query_index < Len(state.messages)
        /\ state.messages[state.current_query_index + 1] = question.msg

\* Synthesis has read the question after a rewrite had been appended.
C5_Witness ==
    /\ RagActive
    /\ status = "done"
    /\ state.retry_count >= 1
    /\ Last(state.messages).content = "answer"
    /\ question.by = "index"

\* The messages a rewrite step appended.
RewriteCount(s) ==
    Cardinality({i \in 1..Len(s.messages) : s.messages[i].content = "rewritten"})

\* The run so far is one of the scenario: generate_query_or_respond asked for
\* retrieval every time (it never answered directly), the evaluator answered
\* is_sufficient = false every time it was consulted (a true verdict in the
\* state is the forced one), and no delegate raised.
Scenario ==
    /\ RagActive
    /\ status # "failed"
    /\ \A i \in 1..Len(state.messages) : state.messages[i].content # "direct"
    /\ state.is_sufficient => state.feedback = "max_retries_reached"

\* C6: in the scenario, with a retry limit up to the one process_message sets
\* (so with 2 and with 3), rewrites happen only below the limit, synthesis is
\* reached only by the forced verdict and after exactly max_retries rewrite
\* messages, the run ends at END with the synthesized answer, and the step
\* ceiling of 30 is never hit.
C6_ScenarioRewrites ==
    Scenario /\ state.max_retries <= DefaultMaxRetries =>
        /\ RewriteCount(state) <= state.max_retries
        /\ RewriteCount(state) = state.retry_count
        /\ status # "exhausted"
        /\ steps < RecursionLimit
        /\ (status = "running" /\ current = "query_rewriter" =>
                RewriteCount(state) < state.max_retries)
        /\ (current = "synthesize_answer" \/ status = "done" =>
                /\ RewriteCount(state) = state.max_retries
                /\ state.is_sufficient
                /\ state.feedback = "max_retries_reached")
        /\ (status = "done" <=> current = END)
        /\ (status = "done" => Last(state.messages).content = "answer"
                               /\ result = "answer")

C6_Witness ==
    /\ Scenario
    /\ status = "done"
    /\ state.max_retries = 2
    /\ RewriteCount(state) = 2
    /\ Last(state.messages).content = "answer"

\* C7, as stated: the scenario run with max_retries = 2 takes 10 steps.
C7_TenSteps ==
    Scenario /\ status = "done" /\ state.max_retries = 2 => steps = 10

\* C7, amended: a scenario run that reaches END took 4 * max_retries + 4
\* steps: generate, retrieve, evaluate and rewrite once per retry, then
\* generate, retrieve, the forced evaluate and synthesize; 12 for
\* max_retries = 2.
C7_ScenarioSteps ==
    Scenario /\ status = "done" => steps = 4 * state.max_retries + 4

C7_Witness ==
    /\ Scenario
    /\ status = "done"
    /\ state.max_retries = 2
    /\ steps = 12

ResearchActive == pipeline = "research" /\ status # "idle"

\* The step taken runs some node to completion.
SomeNodeRan ==
    /\ status = "running"
    /\ steps' = steps + 1
    /\ status' \in {"running", "done"}

\* C8, as stated: after every node step of either pipeline each state field
\* the node's update does not name has the value it had before the step.
C8_UnnamedFieldsKept ==
    [][SomeNodeRan =>
        \A f \in DOMAIN state \ DOMAIN update' : state'[f] = state[f]]_vars

\* C8, amended: the same, except that the research finalize step, whose update
\* names the messages alone, may change the report (it writes the summary,
\* findings and limitations into it in place); in that step too every other
\* unnamed field is kept, and the report keeps its detailed_analysis.
C8_UnnamedFieldsKeptButReport ==
    [][SomeNodeRan =>
        /\ \A f \in DOMAIN state \ DOMAIN update' :
              \/ state'[f] = state[f]
              \/ pipeline = "research" /\ current = "finalizer" /\ f = "report"
        /\ (pipeline = "research" /\ current = "finalizer" =>
              state'.report.detailed_analysis = state.report.detailed_analysis)]_vars

\* The RAG evaluate node returned is_sufficient and feedback alone, in a state
\* whose other fields had left their initial values.
C8_Witness ==
    /\ RagActive
    /\ DOMAIN update = {"is_sufficient", "feedback"}
    /\ current = "query_rewriter"
    /\ state.retry_count = 1
    /\ state.current_query_index = 2
    /\ Len(state.messages) > 5

\* C9: after every node step of either pipeline the messages before the step
\* are a prefix of the messages after it.
C9_MessagesAppendOnly ==
    [][SomeNodeRan => IsPrefix(state.messages, state'.messages)]_vars

\* A research run has finished with a message from each of its nodes after
\* the two messages it started from.
C9_Witness ==
    /\ ResearchActive
    /\ status = "done"
    /\ Len(state.messages) = 8
    /\ state.messages[1].content = "h_user"
    /\ state.messages[2].content = "query"
    /\ state.messages[3].content = "plan_created"

PlanMade == ResearchActive /\ ~state.research_plan.is_none

\* C10, as stated: each completed research step adds one to
\* research_plan.current_question_index, no other node changes it once the
\* plan is made, and it never exceeds the number of questions.
C10_QuestionIndex ==
    /\ [](PlanMade => state.research_plan.current_question_index
                        <= Len(state.research_plan.questions))
    /\ [][PlanMade /\ SomeNodeRan =>
            state'.research_plan.current_question_index =
                IF current = "specialized_research" /\ ~ResearchDone(state)
                THEN state.research_plan.current_question_index + 1
                ELSE state.research_plan.current_question_index]_vars

\* The sections of the report and the questions of the plan.
Sections == state.report.detailed_analysis
Questions == state.research_plan.questions

\* C11, as stated: once the plan is made the report has one section per
\* planned question; the plan step creates every section with no content; a
\* section that has content is never written again by a later step; and a run
\* that reaches END has written every section.
C11_SectionsWrittenOnce ==
    /\ [](PlanMade => Len(Sections) = Len(Questions))
    /\ [][SomeNodeRan /\ current = "research_manager" =>
            \A i \in 1..Len(Sections') : Sections'[i].content = None]_vars
    /\ [][PlanMade /\ SomeNodeRan =>
            \A i \in 1..Len(Sections) :
                Sections[i].content # None => Sections'[i] = Sections[i]]_vars
    /\ [](PlanMade /\ status = "done" =>
            \A i \in 1..Len(Sections) : Sections[i].content # None)

\* How many messages of the log have the given content.
Count(content) ==
    Len(SelectSeq(state.messages, LAMBDA m : m.content = content))

\* The executions of the evaluate node so far: each leaves one message.
Evaluations == Count("next_section") + Count("finalizing")

\* The research steps so far that researched a question.
Researched == Count("completed_section")

\* C12, as stated: with a plan of N questions, once research followed by
\* evaluate has run N times, current_question_index = N and every section of
\* the report has content.
C12_AfterNIterations ==
    PlanMade /\ current # "evaluate" /\ Evaluations = Len(Questions) =>
        /\ state.research_plan.current_question_index = Len(Questions)
        /\ \A i \in 1..Len(Sections) : Sections[i].content # None

\* The current_question_index the plan had when the manager's delegate
\* returned it: each research step that researched a question added one.
StartIndex == state.research_plan.current_question_index - Researched

\* The evaluate node ran to completion in this step of a run whose plan
\* started at index 0.
EvaluateRan ==
    /\ PlanMade
    /\ StartIndex = 0
    /\ SomeNodeRan
    /\ current = "evaluate"

\* C13, as stated: with a plan of N questions (its index starting at 0) the
\* executions of evaluate numbered 1..N are followed by research and the
\* execution numbered N + 1 by finalize.
C13_FinalizeAfterNPlusOne ==
    [][EvaluateRan =>
        /\ Evaluations' <= Len(Questions) + 1
        /\ (current' = "specialized_research") = (Evaluations' <= Len(Questions))
        /\ (current' = "finalizer") = (Evaluations' = Len(Questions) + 1)]_vars

\* C13, amended: with a plan of N questions whose index starts at 0, the
\* executions of evaluate numbered 1..N-1 are followed by research and the
\* execution numbered N by finalize; with no question the one execution of
\* evaluate is followed by finalize.
C13_FinalizeAfterN ==
    [][EvaluateRan =>
        /\ (current' = "specialized_research") = (Evaluations' < Len(Questions))
        /\ (current' = "finalizer") =
              (Evaluations' = IF Len(Questions) = 0 THEN 1 ELSE Len(Questions))]_vars

\* A run over a plan of three questions has finished after three evaluations.
C13_Witness ==
    /\ PlanMade
    /\ StartIndex = 0
    /\ status = "done"
    /\ Len(Questions) = MaxQuestions
    /\ Researched = MaxQuestions
    /\ Evaluations = MaxQuestions
    /\ Count("next_section") = MaxQuestions - 1

\* C14: each execution of the research evaluate node is followed by the
\* research node if current_question_index < len(questions) when it runs and by
\* the finalize node otherwise, and it leaves the index and the questions as
\* they were.
C14_EvaluateRoutes ==
    [][PlanMade /\ SomeNodeRan /\ current = "evaluate" =>
        /\ current' = IF state.research_plan.current_question_index < Len(Questions)
                      THEN "specialized_research" ELSE "finalizer"
        /\ state'.research_plan = state.research_plan]_vars

\* The evaluate node has sent the run back to research and, later, on to
\* finalize.
C14_Witness ==
    /\ PlanMade
    /\ status = "running"
    /\ current = "finalizer"
    /\ Count("next_section") = 2
    /\ Count("finalizing") = 1
    /\ state.research_plan.current_question_index = Len(Questions)

\* C15, as stated: whenever a run of a pipeline fails, by a node or delegate
\* raising or by the step ceiling, process_message returns one of its error
\* strings; the fault is never raised to the caller.
C15_NoFaultEscapes ==
    status \in {"failed", "exhausted"} =>
        result \in {"difficulty_finding", "encountered_error"}

\* C16: when a run of either pipeline reaches END, the answer process_message
\* returns is the content of the last message of the final state, and it is
\* the answer the caller holds once process_message has returned.
C16_AnswerIsLastMessage ==
    /\ [](status = "done" =>
            /\ current = END
            /\ Len(state.messages) > 0
            /\ result = state.messages[Len(state.messages)].content)
    /\ [][status = "done" /\ status' = "idle" =>
            result' = state.messages[Len(state.messages)].content]_vars

\* A research run over two questions has reached END with the finalizer's
\* report as its last message, after a history of two messages.
C16_Witness ==
    /\ ResearchActive
    /\ status = "done"
    /\ Len(Questions) = 2
    /\ Len(state.messages) = 9
    /\ state.messages[1].content = "h_user"
    /\ state.messages[9].content = "report"
    /\ result = "report"

\* C17, as stated: a failed RAG run returns the tailored answer exactly when
\* it failed by the step ceiling, and the generic error string whenever a node
\* or delegate failed.
C17_TailoredOnlyForCeiling ==
    RagActive /\ status \in {"failed", "exhausted"} =>
        /\ (result = "difficulty_finding") = (status = "exhausted")
        /\ (status = "failed" => result = "encountered_error")

(***************************************************************************)
(* Research runs over long plans: the history is empty, the plan's index   *)
(* starts at 0 and the specialist always returns the same text, so that    *)
(* plans of up to LongQuestions questions can be followed to their end.    *)
(***************************************************************************)
LongQuestions == 13

LongProcessMessage ==
    /\ status = "idle"
    /\ state' = ResearchInitialState(<<>>)
    /\ pipeline' = "research"
    /\ status' = "running"
    /\ current' = "research_manager"
    /\ steps' = 0
    /\ update' = NoUpdate
    /\ question' = NoQuestion
    /\ result' = "none"

LongPlanStep ==
    /\ ResearchRunning("research_manager")
    /\ \E n \in 0..LongQuestions :
          ResearchStep("research_manager",
                       ResearchManagerNode(state, steps + 1, ResearchPlan(n, 0, FALSE)))

LongResearch ==
    /\ ResearchRunning("specialized_research")
    /\ ResearchStep("specialized_research",
                    SpecializedResearchNode(state, steps + 1, "text"))

LongNext ==
    \/ LongProcessMessage
    \/ LongPlanStep
    \/ LongResearch
    \/ ResearchEvaluate
    \/ ResearchFinalize
    \/ Exhausted
    \/ NodeFails
    \/ Return

LongSpec == Init /\ [][LongNext]_vars

\* C18, as stated: a run of either pipeline ends in resource exhaustion only
\* with 30 steps taken and a further node due, and a run that has taken fewer
\* than 30 steps and has a node due is not refused by the engine.
C18_CeilingIsThirty ==
    /\ [](status = "exhausted" => steps = 30 /\ current # END)
    /\ [](status = "running" /\ steps < 30 =>
            ENABLED (RagGenerate \/ RagRetrieve \/ RagEvaluate \/ RagRewrite
                     \/ RagSynthesize \/ LongPlanStep \/ LongResearch
                     \/ ResearchEvaluate \/ ResearchFinalize \/ NodeFails))

\* C19: when the message a generate_or_respond step appends asks for no tool
\* call, the step ends the RAG run at END, the answer is that message's
\* content, no node is executed after it, and process_message returns that
\* answer; a first generate step answering directly after an empty history
\* thus yields its own text after one step.
C19_DirectAnswerEnds ==
    /\ [][RagActive /\ NodeRan("generate_query_or_respond")
            /\ Last(state'.messages).tool_calls = 0 =>
                /\ current' = END
                /\ status' = "done"
                /\ state'.messages = Append(state.messages, Last(state'.messages))
                /\ Last(state'.messages).type = "ai"
                /\ result' = Last(state'.messages).content]_vars
    /\ [](RagActive /\ status = "done" =>
            ~ENABLED (RagGenerate \/ RagRetrieve \/ RagEvaluate \/ RagRewrite
                      \/ RagSynthesize \/ Exhausted \/ NodeFails))
    /\ [][RagActive /\ status = "done" => status' = "idle" /\ result' = result]_vars

\* With an empty history the first generate step answered directly: the run is
\* at END after one step, with the query and the answer as its messages.
C19_Witness ==
    /\ RagActive
    /\ status = "done"
    /\ steps = 1
    /\ Len(state.messages) = 2
    /\ state.messages[1] = HumanMessage("query")
    /\ state.messages[2].content = "direct"
    /\ result = "direct"

(***************************************************************************)
(* Two process_message calls in progress on one pipeline instance. Here    *)
(* each variable holds one value per call: pipeline[r], status[r], ...,    *)
(* result[r] are what the single-call specification keeps in pipeline,     *)
(* status, ..., result. The calls stay below the step ceiling: the retry   *)
(* limit is the one process_message passes and the plans are short.        *)
(***************************************************************************)
Runs == {1, 2}

TwoQuestions == 1   \* most questions in a plan of the two-call specification

TwoHistories == {<<>>, <<"user", "assistant">>}

\* The generate delegate answers directly or asks for one retrieval.
TwoToolCalls == {0, 1}

\* What one call holds.
Run(r) ==
    [pipeline |-> pipeline[r], status |-> status[r], current |-> current[r],
     steps |-> steps[r], state |-> state[r], update |-> update[r],
     question |-> question[r], result |-> result[r]]

\* A call keeping its graph state where every call of its pipeline in progress
\* keeps it (on the instance).
SetRunShared(r, b) ==
    /\ pipeline' = [pipeline EXCEPT ![r] = b.pipeline]
    /\ status' = [status EXCEPT ![r] = b.status]
    /\ current' = [current EXCEPT ![r] = b.current]
    /\ steps' = [steps EXCEPT ![r] = b.steps]
    /\ state' = [o \in Runs |->
                    IF o = r \/ pipeline[o] = b.pipeline THEN b.state ELSE state[o]]
    /\ update' = [update EXCEPT ![r] = b.update]
    /\ question' = [question EXCEPT ![r] = b.question]
    /\ result' = [result EXCEPT ![r] = b.result]

\* process_message keeps the run in its own locals (state, result) and
\* graph.invoke keeps the channels per invocation (the graphs are compiled
\* without a checkpointer): a step of call r writes what call r holds.
SetRun(r, b) ==
    /\ pipeline' = [pipeline EXCEPT ![r] = b.pipeline]
    /\ status' = [status EXCEPT ![r] = b.status]
    /\ current' = [current EXCEPT ![r] = b.current]
    /\ steps' = [steps EXCEPT ![r] = b.steps]
    /\ state' = [state EXCEPT ![r] = b.state]
    /\ update' = [update EXCEPT ![r] = b.update]
    /\ question' = [question EXCEPT ![r] = b.question]
    /\ result' = [result EXCEPT ![r] = b.result]

\* The call that is not in progress, holding the answer of the one before.
IdleRun(answer) ==
    [pipeline |-> "none", status |-> "idle", current |-> "none", steps |-> 0,
     state |-> Discarded, update |-> NoUpdate, question |-> NoQuestion,
     result |-> answer]

\* process_message up to graph.invoke: the runs a call can start.
RunStarts(a) ==
    IF a.status # "idle" THEN {}
    ELSE {[IdleRun("none") EXCEPT
              !.pipeline = "rag", !.status = "running",
              !.current = "generate_query_or_respond",
              !.state = RagInitialState(h, DefaultMaxRetries)] : h \in TwoHistories}
         \cup
         {[IdleRun("none") EXCEPT
              !.pipeline = "research", !.status = "running",
              !.current = "research_manager",
              !.state = ResearchInitialState(h)] : h \in TwoHistories}

\* What the node due in run a can return, over the outputs of its delegate.
NodeOutcomes(a) ==
    LET s == a.state
        k == a.steps + 1
    IN  IF a.pipeline = "rag"
        THEN CASE a.current = "generate_query_or_respond" ->
                    {GenerateQueryOrRespond(s, k, n) : n \in TwoToolCalls}
               [] a.current = "retrieve_documents" -> {RetrieveDocuments(s, k)}
               [] a.current = "evaluate_documents" ->
                    {EvaluateDocuments(s, judged) : judged \in BOOLEAN}
               [] a.current = "query_rewriter" -> {QueryRewriter(s, k)}
               [] a.current = "synthesize_answer" -> {SynthesizeAnswer(s, k)}
        ELSE CASE a.current = "research_manager" ->
                    {ResearchManagerNode(s, k, ResearchPlan(n, 0, FALSE)) :
                        n \in 0..TwoQuestions}
               [] a.current = "specialized_research" ->
                    IF ResearchIndexError(s) THEN {}
                    ELSE {SpecializedResearchNode(s, k, content) :
                            content \in ContentValues}
               [] a.current = "evaluate" -> {EvaluatorNode(s, k)}
               [] a.current = "finalizer" ->
                    {FinalizerNode(s, k, parts) : parts \in FinalizerParts}

\* graph.invoke executing one node of run a: the update is merged and the
\* edges give the node that follows.
RunStepped(a, r) ==
    LET merged == Merge(r.inplace, r.update)
        next == IF a.pipeline = "rag" THEN RagNext(a.current, merged)
                ELSE ResearchNext(a.current, merged)
    IN  [a EXCEPT !.state = merged,
                  !.update = r.update,
                  !.question = r.question,
                  !.steps = @ + 1,
                  !.current = next,
                  !.status = IF next = END THEN "done" ELSE "running",
                  !.result = IF next = END THEN FinalAnswer(merged) ELSE @]

RunNodeSteps(a) ==
    IF a.status = "running" /\ a.steps < StepLimit(a.pipeline)
    THEN {RunStepped(a, r) : r \in NodeOutcomes(a)}
    ELSE {}

\* Whether the node due in run a calls a delegate.
RunCallsDelegate(a) ==
    \/ a.pipeline = "rag" /\ a.current # "evaluate_documents"
    \/ a.pipeline = "rag" /\ a.current = "evaluate_documents"
                          /\ a.state.retry_count < a.state.max_retries
    \/ a.pipeline = "research" /\ a.current \in {"research_manager", "finalizer"}
    \/ a.pipeline = "research" /\ a.current = "specialized_research"
                               /\ ~ResearchDone(a.state)

\* The node due in run a raises.
RunFailures(a) ==
    IF a.status = "running" /\ a.steps < StepLimit(a.pipeline) /\ RunCallsDelegate(a)
    THEN {[a EXCEPT !.status = "failed", !.steps = @ + 1, !.result = answer] :
            answer \in IF a.pipeline = "rag"
                       THEN {"difficulty_finding", "encountered_error"}
                       ELSE {"raised"}}
    ELSE {}

\* The engine refuses the node due in run a at the step ceiling.
RunExhausted(a) ==
    IF a.status = "running" /\ a.steps >= StepLimit(a.pipeline)
    THEN {[a EXCEPT !.status = "exhausted",
                    !.result = IF a.pipeline = "rag" THEN "difficulty_finding"
                               ELSE "raised"]}
    ELSE {}

\* process_message returns.
RunReturns(a) ==
    IF a.status \in {"done", "exhausted", "failed"} THEN {IdleRun(a.result)} ELSE {}

\* Every step a call takes when it is the only one in progress.
RunSteps(a) ==
    RunStarts(a) \cup RunNodeSteps(a) \cup RunFailures(a) \cup RunExhausted(a)
        \cup RunReturns(a)

\* What the single-call specification holds, as one call.
SoloRun ==
    [pipeline |-> pipeline, status |-> status, current |-> current,
     steps |-> steps, state |-> state, update |-> update,
     question |-> question, result |-> result]

\* In the single-call specification every step of a run after its start and
\* its plan step (whose inputs range wider there) is a step of RunSteps.
SoloStepsAreRunSteps ==
    [][status # "idle" /\ current # "research_manager" =>
        SoloRun' \in RunSteps(SoloRun)]_vars

TwoProcessMessage ==
    \E r \in Runs : \E b \in RunStarts(Run(r)) : SetRun(r, b)

\* Node `node` of pipeline p is due in call r.
Due(r, p, node) == pipeline[r] = p /\ current[r] = node

TwoRagGenerate ==
    \E r \in Runs :
        /\ Due(r, "rag", "generate_query_or_respond")
        /\ \E b \in RunNodeSteps(Run(r)) : SetRun(r, b)

TwoRagRetrieve ==
    \E r \in Runs :
        /\ Due(r, "rag", "retrieve_documents")
        /\ \E b \in RunNodeSteps(Run(r)) : SetRun(r, b)

TwoRagEvaluate ==
    \E r \in Runs :
        /\ Due(r, "rag", "evaluate_documents")
        /\ \E b \in RunNodeSteps(Run(r)) : SetRun(r, b)

TwoRagRewrite ==
    \E r \in Runs :
        /\ Due(r, "rag", "query_rewriter")
        /\ \E b \in RunNodeSteps(Run(r)) : SetRun(r, b)

TwoRagSynthesize ==
    \E r \in Runs :
        /\ Due(r, "rag", "synthesize_answer")
        /\ \E b \in RunNodeSteps(Run(r)) : SetRun(r, b)

TwoResearchPlanStep ==
    \E r \in Runs :
        /\ Due(r, "research", "research_manager")
        /\ \E b \in RunNodeSteps(Run(r)) : SetRun(r, b)

TwoResearchResearch ==
    \E r \in Runs :
        /\ Due(r, "research", "specialized_research")
        /\ \E b \in RunNodeSteps(Run(r)) : SetRun(r, b)

TwoResearchEvaluate ==
    \E r \in Runs :
        /\ Due(r, "research", "evaluate")
        /\ \E b \in RunNodeSteps(Run(r)) : SetRun(r, b)

TwoResearchFinalize ==
    \E r \in Runs :
        /\ Due(r, "research", "finalizer")
        /\ \E b \in RunNodeSteps(Run(r)) : SetRun(r, b)

TwoNodeFails ==
    \E r \in Runs : \E b \in RunFailures(Run(r)) : SetRun(r, b)

TwoReturn ==
    \E r \in Runs : \E b \in RunReturns(Run(r)) : SetRun(r, b)

TwoInit ==
    /\ pipeline = [r \in Runs |-> "none"]
    /\ status = [r \in Runs |-> "idle"]
    /\ current = [r \in Runs |-> "none"]
    /\ steps = [r \in Runs |-> 0]
    /\ state = [r \in Runs |-> Discarded]
    /\ update = [r \in Runs |-> NoUpdate]
    /\ question = [r \in Runs |-> NoQuestion]
    /\ result = [r \in Runs |-> "none"]

TwoNext ==
    \/ TwoProcessMessage
    \/ TwoRagGenerate
    \/ TwoRagRetrieve
    \/ TwoRagEvaluate
    \/ TwoRagRewrite
    \/ TwoRagSynthesize
    \/ TwoResearchPlanStep
    \/ TwoResearchResearch
    \/ TwoResearchEvaluate
    \/ TwoResearchFinalize
    \/ TwoNodeFails
    \/ TwoReturn

TwoSpec == TwoInit /\ [][TwoNext]_vars

\* C20: with two calls in progress on one instance, under every interleaving
\* of their steps each step is a step of one call alone: the call that moves
\* goes to a state it can go to when it is the only call in progress, the
\* other call keeps its pipeline, position, step count, state and answer, and
\* a call that reaches END returns the last message of its own state.
C20_RunsIndependent ==
    /\ [][\A r \in Runs : Run(r)' # Run(r) =>
            /\ Run(r)' \in RunSteps(Run(r))
            /\ \A o \in Runs \ {r} : Run(o)' = Run(o)]_vars
    /\ [](\A r \in Runs : status[r] = "done" =>
            result[r] = Last(state[r].messages).content)

\* Two RAG calls are in progress: the first, started with a history, is about
\* to rewrite its query after three steps while the second, started without
\* one, has reached END with a synthesized answer.
C20_Witness ==
    /\ pipeline[1] = "rag"
    /\ pipeline[2] = "rag"
    /\ status[1] = "running"
    /\ current[1] = "query_rewriter"
    /\ steps[1] = 3
    /\ state[1].messages[1].content = "h_user"
    /\ status[2] = "done"
    /\ state[2].messages[1].content = "query"
    /\ result[2] = "answer"

(***************************************************************************)
(* Successive process_message calls on one instance: a call starts when    *)
(* none is in progress, be it the first or one that follows a run that     *)
(* ended at END or failed. The variables keep what the run before left     *)
(* (its final state, its answer) until the call overwrites them, so that   *)
(* what a call takes over from the run before it can be seen.              *)
(***************************************************************************)
Ended == status \in {"done", "exhausted", "failed"}

\* process_message, were it to go on with the messages the run before left.
CallStateResumed(left, built) ==
    [built EXCEPT !.messages = left.messages \o <<Last(built.messages)>>]

\* process_message binds its local `state` to a new object built from its
\* arguments; the state the run before left is not read.
CallState(left, built) == built

RagCallAgain ==
    /\ status = "idle" \/ Ended
    /\ \E chat_history \in TwoHistories :
          state' = CallState(state, RagInitialState(chat_history, DefaultMaxRetries))
    /\ pipeline' = "rag"
    /\ status' = "running"
    /\ current' = "generate_query_or_respond"
    /\ steps' = 0
    /\ update' = NoUpdate
    /\ question' = NoQuestion
    /\ UNCHANGED result

ResearchCallAgain ==
    /\ status = "idle" \/ Ended
    /\ \E chat_history \in TwoHistories :
          state' = CallState(state, ResearchInitialState(chat_history))
    /\ pipeline' = "research"
    /\ status' = "running"
    /\ current' = "research_manager"
    /\ steps' = 0
    /\ update' = NoUpdate
    /\ question' = NoQuestion
    /\ UNCHANGED result

SuccessiveNext ==
    \/ RagCallAgain
    \/ RagGenerate
    \/ RagRetrieve
    \/ RagEvaluate
    \/ RagRewrite
    \/ RagSynthesize
    \/ ResearchCallAgain
    \/ ResearchPlanStep
    \/ ResearchResearch
    \/ ResearchEvaluate
    \/ ResearchFinalize
    \/ NodeFails

SuccessiveSpec == Init /\ [][SuccessiveNext]_vars

\* C21: whatever state the run before left, a call starts its run at step 0
\* from a state built from its own message and the caller's history alone: the
\* messages are the converted history followed by the query, and the RAG run
\* has retry_count 0, is_sufficient false, an empty feedback and the query's
\* index, the research run no plan and no report.
C21_FreshState ==
    [][status # "running" /\ status' = "running" =>
        /\ steps' = 0
        /\ update' = NoUpdate
        /\ \E h \in TwoHistories :
              state'.messages = Append(ConvertHistory(h), HumanMessage("query"))
        /\ IF pipeline' = "rag"
           THEN /\ DOMAIN state' = {"messages", "feedback", "is_sufficient",
                                    "retry_count", "max_retries", "current_query_index"}
                /\ state'.retry_count = 0
                /\ state'.is_sufficient = FALSE
                /\ state'.feedback = ""
                /\ state'.max_retries = DefaultMaxRetries
                /\ state'.current_query_index = Len(state'.messages) - 1
           ELSE /\ DOMAIN state' = {"messages", "research_plan", "report", "next_step"}
                /\ state'.research_plan = NoPlan
                /\ state'.report = NoReport
                /\ state'.next_step = "research_manager"]_vars

\* A RAG call has just started, fresh, while the caller still holds the report
\* the research run before it returned.
C21_Witness ==
    /\ pipeline = "rag"
    /\ status = "running"
    /\ steps = 0
    /\ result = "report"
    /\ state.retry_count = 0
    /\ state.feedback = ""
    /\ state.messages = <<HumanMessage("query")>>

\* The edges of the documented RAG graph.
RagEdges ==
    {<<"generate_query_or_respond", "retrieve_documents">>,
     <<"generate_query_or_respond", END>>,
     <<"retrieve_documents", "evaluate_documents">>,
     <<"evaluate_documents", "synthesize_answer">>,
     <<"evaluate_documents", "query_rewriter">>,
     <<"query_rewriter", "generate_query_or_respond">>,
     <<"synthesize_answer", END>>}

\* C22: a RAG run starts at generate_or_respond, every node it executes is
\* followed along an edge of the documented graph, and a step that ends the
\* run by a failure executes no further node.
C22_RagEdgesOnly ==
    /\ [][pipeline' = "rag" /\ status # "running" /\ status' = "running" =>
            current' = "generate_query_or_respond"]_vars
    /\ [][pipeline = "rag" /\ SomeNodeRan => <<current, current'>> \in RagEdges]_vars
    /\ [][pipeline = "rag" /\ status = "running" /\ ~SomeNodeRan =>
            current' = current]_vars

\* A RAG run has taken every edge but the direct answer: it retrieved, was
\* judged insufficient, rewrote, retrieved again, was judged sufficient and
\* synthesized its answer.
C22_Witness ==
    /\ RagActive
    /\ status = "done"
    /\ current = END
    /\ steps = 8
    /\ state.retry_count = 1
    /\ state.feedback # "max_retries_reached"
    /\ Last(state.messages).content = "answer"

\* The edges of the documented research graph.
ResearchEdges ==
    {<<"research_manager", "specialized_research">>,
     <<"specialized_research", "evaluate">>,
     <<"evaluate", "specialized_research">>,
     <<"evaluate", "finalizer">>,
     <<"finalizer", END>>}

\* The executions of the finalize node so far: each leaves the report message.
Finalizations == Count("report") + Count("report_with_placeholders")

\* C23: a research run starts at plan, every node it executes is followed
\* along an edge of the documented graph, finalize has not run before the run
\* is at END and has run exactly once when it is.
C23_ResearchEdgesOnly ==
    /\ [][pipeline' = "research" /\ status # "running" /\ status' = "running" =>
            current' = "research_manager"]_vars
    /\ [][pipeline = "research" /\ SomeNodeRan =>
            <<current, current'>> \in ResearchEdges]_vars
    /\ [](ResearchActive =>
            Finalizations = IF status = "done" THEN 1 ELSE 0)

\* A research run over two questions is at END: plan, research, evaluate,
\* research, evaluate and finalize have run, finalize once.
C23_Witness ==
    /\ ResearchActive
    /\ status = "done"
    /\ steps = 6
    /\ Researched = 2
    /\ Count("next_section") = 1
    /\ Count("finalizing") = 1
    /\ Finalizations = 1

\* C24: each execution of the RAG rewrite node adds one to retry_count,
\* appends one message to the log, the rewritten query, and is followed by
\* generate_or_respond; it changes no other field.
C24_RewriteStep ==
    [][RagActive /\ NodeRan("query_rewriter") =>
        /\ state'.retry_count = state.retry_count + 1
        /\ Len(state'.messages) = Len(state.messages) + 1
        /\ SubSeq(state'.messages, 1, Len(state.messages)) = state.messages
        /\ Last(state'.messages) = AIMessage("rewritten", 0, steps')
        /\ current' = "generate_query_or_respond"
        /\ \A f \in DOMAIN state \ {"messages", "retry_count"} : state'[f] = state[f]]_vars

\* The rewrite node has run for the third time, after which the retry limit
\* process_message passes is reached.
C24_Witness ==
    /\ RagActive
    /\ status = "running"
    /\ current = "generate_query_or_respond"
    /\ state.max_retries = DefaultMaxRetries
    /\ state.retry_count = DefaultMaxRetries
    /\ RewriteCount(state) = DefaultMaxRetries
    /\ Last(state.messages).content = "rewritten"

\* The nodes that read the last message as the retrieved documents.
ReadsDocuments == {"evaluate_documents", "query_rewriter", "synthesize_answer"}

\* The step that executed the most recent retrieve when `current` is due.
RetrievedAt == IF current = "evaluate_documents" THEN steps ELSE steps - 1

\* C25: whenever the RAG evaluate, rewrite or synthesize node is due, the last
\* message of the log is a tool message produced by the most recent retrieve
\* step (the step before evaluate), and no message was appended after it.
C25_DocumentsAreLatestRetrieval ==
    RagActive /\ status = "running" /\ current \in ReadsDocuments =>
        /\ Last(state.messages).type = "tool"
        /\ Last(state.messages).content = "docs"
        /\ Last(state.messages).at = RetrievedAt
        /\ \A i \in 1..Len(state.messages) : state.messages[i].at <= RetrievedAt

\* Synthesize is due after a second retrieval: the last message is the tool
\* output of step 6, while the tool output of step 2 lies further up the log.
C25_Witness ==
    /\ RagActive
    /\ status = "running"
    /\ current = "synthesize_answer"
    /\ steps = 7
    /\ Last(state.messages) = ToolMessage(6)
    /\ \E i \in 1..Len(state.messages) : state.messages[i] = ToolMessage(2)

\* The step taken last executed generate_or_respond: its response is the last
\* message of the log.
GenerateRanLast ==
    /\ status \in {"running", "done"}
    /\ steps > 0
    /\ Last(state.messages).content \in {"tool_call", "direct"}
    /\ Last(state.messages).at = steps

\* C26: the question generate_or_respond hands to its delegate is the message
\* that was last in the log when it ran: on the first pass the triggering user
\* message, at current_query_index, and on every later pass the rewritten
\* query appended by the step before; it is never a tool output or an answer.
C26_GenerateAsksLatestQuery ==
    RagActive /\ GenerateRanLast =>
        /\ question.msg = state.messages[Len(state.messages) - 1]
        /\ IF steps = 1
           THEN /\ question.msg = HumanMessage("query")
                /\ Len(state.messages) - 1 = state.current_query_index + 1
           ELSE question.msg = AIMessage("rewritten", 0, steps - 1)

\* generate_or_respond has run a second time, asking about the rewritten query
\* of step 4 and not about the triggering message.
C26_Witness ==
    /\ RagActive
    /\ status = "running"
    /\ steps = 5
    /\ current = "retrieve_documents"
    /\ question.by = "latest"
    /\ question.msg = AIMessage("rewritten", 0, 4)
    /\ state.messages[state.current_query_index + 1] = HumanMessage("query")

\* C27: routers read the state after the node's update was merged. Every
\* execution of the RAG evaluate node writes is_sufficient, and the node that
\* follows is synthesize exactly when it wrote true and rewrite exactly when it
\* wrote false; every execution of the research evaluate node writes next_step,
\* and the node that follows is research when it wrote "research" and finalize
\* otherwise, whatever value the field held before the step.
C27_RoutersReadMergedState ==
    [][/\ RagActive /\ NodeRan("evaluate_documents") =>
            /\ "is_sufficient" \in DOMAIN update'
            /\ state'.is_sufficient = update'.is_sufficient
            /\ (current' = "synthesize_answer") = update'.is_sufficient
            /\ (current' = "query_rewriter") = ~update'.is_sufficient
       /\ ResearchActive /\ NodeRan("evaluate") =>
            /\ "next_step" \in DOMAIN update'
            /\ state'.next_step = update'.next_step
            /\ current' = IF update'.next_step = "research"
                          THEN "specialized_research" ELSE "finalizer"]_vars

\* The second evaluation of a RAG run wrote true over the false the first one
\* wrote, and synthesize is due.
C27_Witness ==
    /\ RagActive
    /\ status = "running"
    /\ current = "synthesize_answer"
    /\ steps = 7
    /\ state.retry_count = 1
    /\ update = [is_sufficient |-> TRUE, feedback |-> "evaluator_feedback"]
    /\ state.is_sufficient

\* The node that produces a message of the run (none for the messages the
\* call starts with).
NodeOf(m) ==
    CASE m.content \in {"tool_call", "direct"} -> "generate_query_or_respond"
      [] m.content = "docs" -> "retrieve_documents"
      [] m.content = "rewritten" -> "query_rewriter"
      [] m.content = "answer" -> "synthesize_answer"
      [] m.content = "plan_created" -> "research_manager"
      [] m.content = "completed_section" -> "specialized_research"
      [] m.content \in {"next_section", "finalizing"} -> "evaluate"
      [] m.content \in {"report", "report_with_placeholders"} -> "finalizer"
      [] OTHER -> "none"

\* What the node due can return, over the outputs of its delegate.
Returned(p, node, s, k) ==
    IF p = "rag"
    THEN CASE node = "generate_query_or_respond" ->
                {GenerateQueryOrRespond(s, k, n) : n \in 0..MaxToolCalls}
           [] node = "retrieve_documents" -> {RetrieveDocuments(s, k)}
           [] node = "evaluate_documents" ->
                {EvaluateDocuments(s, judged) : judged \in BOOLEAN}
           [] node = "query_rewriter" -> {QueryRewriter(s, k)}
           [] node = "synthesize_answer" -> {SynthesizeAnswer(s, k)}
    ELSE CASE node = "research_manager" ->
                {ResearchManagerNode(s, k, ResearchPlan(n, index, done)) :
                    n \in 0..MaxQuestions, index \in PlanIndexValues, done \in BOOLEAN}
           [] node = "specialized_research" ->
                {SpecializedResearchNode(s, k, content) : content \in ContentValues}
           [] node = "evaluate" -> {EvaluatorNode(s, k)}
           [] node = "finalizer" ->
                {FinalizerNode(s, k, parts) : parts \in FinalizerParts}

\* The messages of an update (none when it does not name the log).
Appended(u) == IF "messages" \in DOMAIN u THEN u.messages ELSE <<>>

\* The step each message of the log was produced by (0: before the run).
Stamps == [i \in 1..Len(state.messages) |-> state.messages[i].at]

\* C28: within a run nodes execute one at a time and the log's order is the
\* order of execution: from each message to the next the step that produced it
\* never decreases, neighbours of one step come from one node, and every node
\* step keeps the log as it was and puts behind it the messages the one node
\* due returned, in the order returned, all produced by this step; the new log
\* is a function of the state before the step and the output of that node's
\* delegate, so equal initial states and equal delegate outputs give equal logs.
C28_AppendOrderIsExecutionOrder ==
    /\ [](status # "idle" =>
            /\ \A i \in 1..Len(state.messages) : state.messages[i].at <= steps
            /\ \A i \in 1..(Len(state.messages) - 1) :
                  /\ state.messages[i].at <= state.messages[i + 1].at
                  /\ state.messages[i].at = state.messages[i + 1].at
                     /\ state.messages[i].at > 0 =>
                        NodeOf(state.messages[i]) = NodeOf(state.messages[i + 1]))
    /\ [][SomeNodeRan =>
            /\ state'.messages = state.messages \o Appended(update')
            /\ \A i \in 1..Len(Appended(update')) :
                  /\ Appended(update')[i].at = steps'
                  /\ NodeOf(Appended(update')[i]) = current
            /\ \E r \in Returned(pipeline, current, state, steps') :
                  /\ update' = r.update
                  /\ state' = Merge(r.inplace, r.update)]_vars

\* A finished RAG run after a history of two entries: generate, retrieve,
\* rewrite, generate, retrieve and synthesize each left their message, in the
\* order of the steps 1, 2, 4, 5, 6 and 8 that executed them.
C28_Witness ==
    /\ RagActive
    /\ status = "done"
    /\ steps = 8
    /\ Stamps = <<0, 0, 0, 1, 2, 4, 5, 6, 8>>
    /\ [i \in 4..9 |-> state.messages[i].content] =
          [i \in 4..9 |-> <<"tool_call", "docs", "rewritten", "tool_call",
                            "docs", "answer">>[i - 3]]

\* The report and the log after a plan step: one section per question of the
\* plan, in the plan's order, with no content and no sources, and one summary
\* message behind the log as it was.
PlanStepLeaves ==
    /\ ~state'.research_plan.is_none /\ ~state'.report.is_none
    /\ Len(state'.report.detailed_analysis) = Len(state'.research_plan.questions)
    /\ \A i \in 1..Len(state'.research_plan.questions) :
          /\ state'.report.detailed_analysis[i].title =
                state'.research_plan.questions[i].title
          /\ state'.report.detailed_analysis[i].content = None
          /\ state'.report.detailed_analysis[i].sources = <<>>
    /\ state'.messages = Append(state.messages, AIMessage("plan_created", 0, steps'))

\* C29, as stated: after the plan step, whatever plan the delegate returned,
\* the report has one empty section per question in the plan's order, every
\* question has completed = false, current_question_index is 0 and exactly one
\* summary message was appended.
C29_PlanStep ==
    [][ResearchActive /\ NodeRan("research_manager") =>
            /\ PlanStepLeaves
            /\ \A i \in 1..Len(state'.research_plan.questions) :
                  ~state'.research_plan.questions[i].completed
            /\ state'.research_plan.current_question_index = 0]_vars

\* The part of C29 that does not depend on what the delegate put into
\* completed and current_question_index.
PlanStepSections == [][ResearchActive /\ NodeRan("research_manager") => PlanStepLeaves]_vars

\* The position in the plan (and in the report) of the question at
\* current_question_index when the research node is due.
QuestionAt ==
    PyIndex(state.research_plan.current_question_index,
            Len(state.research_plan.questions))

\* The step operated on the question at position `at` and on nothing else: it
\* is marked completed, its section holds the specialist's text and the source
\* lines of that text under the title it had, and every other question and
\* section is as it was.
OperatedOn(at) ==
    /\ at \in 1..Len(state.research_plan.questions)
    /\ Len(state'.research_plan.questions) = Len(state.research_plan.questions)
    /\ Len(state'.report.detailed_analysis) = Len(state.report.detailed_analysis)
    /\ state'.research_plan.questions[at] =
          [state.research_plan.questions[at] EXCEPT !.completed = TRUE]
    /\ state'.report.detailed_analysis[at].title =
          state.report.detailed_analysis[at].title
    /\ state'.report.detailed_analysis[at].content \in ContentValues
    /\ state'.report.detailed_analysis[at].sources =
          Sources(state'.report.detailed_analysis[at].content)
    /\ \A i \in 1..Len(state.research_plan.questions) :
          i # at =>
              /\ state'.research_plan.questions[i] = state.research_plan.questions[i]
              /\ state'.report.detailed_analysis[i] = state.report.detailed_analysis[i]

\* C30, as stated: every execution of the research node operates on exactly
\* one question, the one at current_question_index, marking it completed and
\* filling its section, and leaves every other question and section unchanged.
C30_ResearchFrame ==
    [][ResearchActive /\ NodeRan("specialized_research") => OperatedOn(QuestionAt)]_vars

\* C30, amended: an execution of the research node that finds
\* current_question_index below the number of questions operates on exactly
\* the question at that index, marking it completed and filling its section,
\* and leaves every other question and section unchanged; an execution that
\* finds the index at or past the number of questions (as after a plan without
\* questions) operates on no question: plan, report and log stay as they were.
C30_ResearchFrameWhenDue ==
    [][ResearchActive /\ NodeRan("specialized_research") =>
            IF ResearchDone(state)
            THEN /\ state' = state
                 /\ update' = NoUpdate
            ELSE OperatedOn(QuestionAt)]_vars

\* The research node has just operated on the second of three questions: the
\* first two are completed and their sections filled, the third is untouched.
C30_Witness ==
    /\ ResearchActive
    /\ status = "running"
    /\ current = "evaluate"
    /\ steps = 4
    /\ Len(state.research_plan.questions) = 3
    /\ state.research_plan.current_question_index = 2
    /\ [i \in 1..3 |-> state.research_plan.questions[i].completed] =
          <<TRUE, TRUE, FALSE>>
    /\ state.report.detailed_analysis[2].content = "text_with_url"
    /\ state.report.detailed_analysis[3].content = None

\* The node executions a research run over a plan of n questions consists of:
\* plan, research and evaluate n times each (once each without questions),
\* finalize.
RunLength(n) == 2 * (IF n = 0 THEN 1 ELSE n) + 2

\* C31, as stated: a research run over a plan of N questions (its index
\* starting at 0) never ends in resource exhaustion and never executes more
\* than plan once, research and evaluate N times each (once each when N = 0)
\* and finalize once; when it reaches END it has executed exactly these, with
\* N questions researched, no evaluation beyond them and no question
\* researched twice.
C31_LengthBoundedByQuestions ==
    PlanMade /\ StartIndex = 0 =>
        /\ status # "exhausted"
        /\ steps <= RunLength(Len(Questions))
        /\ Researched <= Len(Questions)
        /\ status = "done" =>
              /\ steps = RunLength(Len(Questions))
              /\ Researched = Len(Questions)
              /\ Evaluations = (IF Len(Questions) = 0 THEN 1 ELSE Len(Questions))
              /\ Count("plan_created") = 1
              /\ Finalizations = 1

\* The part of C31 that holds: what is stated, for runs the engine's step
\* ceiling does not cut short.
LengthBoundedUnlessExhausted ==
    PlanMade /\ StartIndex = 0 /\ status # "exhausted" =>
        /\ steps <= RunLength(Len(Questions))
        /\ Researched <= Len(Questions)
        /\ status = "done" =>
              /\ steps = RunLength(Len(Questions))
              /\ Researched = Len(Questions)
              /\ Evaluations = (IF Len(Questions) = 0 THEN 1 ELSE Len(Questions))
              /\ Count("plan_created") = 1
              /\ Finalizations = 1

\* The report's summary, findings and limitations are all absent.
FieldsAbsent(report) ==
    /\ report.executive_summary = None
    /\ report.key_findings = None
    /\ report.limitations = None

\* C32: when the finalize delegate's text splits into fewer than three parts,
\* the finalize node raises nothing and leaves executive_summary, key_findings
\* and limitations absent, its one message is the report with the placeholder
\* in place of each of them, and the step ends the run with that message as
\* the answer. The three fields are absent together or present together, and
\* the report shows placeholders exactly when they are absent.
C32_UnsplitOutputGivesPlaceholders ==
    /\ [](ResearchRunning("finalizer") =>
            \A parts \in FinalizerParts :
                parts < 3 =>
                    LET r == FinalizerNode(state, steps + 1, parts)
                    IN  /\ FieldsAbsent(r.inplace.report)
                        /\ r.inplace.report = state.report
                        /\ r.update = [messages |->
                              <<AIMessage("report_with_placeholders", 0, steps + 1)>>])
    /\ [](ResearchActive /\ ~state.report.is_none =>
            \/ FieldsAbsent(state.report)
            \/ /\ state.report.executive_summary # None
               /\ state.report.key_findings # None
               /\ state.report.limitations # None)
    /\ [][ResearchActive /\ NodeRan("finalizer") =>
            /\ status' = "done"
            /\ result' = Last(state'.messages).content
            /\ Len(state'.messages) = Len(state.messages) + 1
            /\ FieldsAbsent(state'.report) =
                  (Last(state'.messages).content = "report_with_placeholders")
            /\ ~FieldsAbsent(state'.report) =
                  (Last(state'.messages).content = "report")
            /\ state'.report.detailed_analysis = state.report.detailed_analysis]_vars

\* A research run over two questions ended with the placeholders: the
\* finalizer's text did not split, the three fields are absent and the answer
\* is the report showing N/A.
C32_Witness ==
    /\ ResearchActive
    /\ status = "done"
    /\ Researched = 2
    /\ FieldsAbsent(state.report)
    /\ Last(state.messages) = AIMessage("report_with_placeholders", 0, steps)
    /\ result = "report_with_placeholders"

(***************************************************************************)
(* The dispatcher (UnifiedChat), after app.py has called initialize().     *)
(***************************************************************************)
\* The labels _classify_query compares with, and QueryType's values.
Labels == {"SIMPLE_TOOL", "AGENTIC_RAG", "DEEP_RESEARCH", "SAST", "SSRF"}

\* What the classifier delegate answers: the text its content holds once
\* stripped and upper-cased (a label, "GENERAL", nothing, or some other text)
\* and the form it came in; or the delegate raises.
ClassifierTexts == Labels \cup {"GENERAL", "", "OTHER"}
ClassifierForms == {"exact", "lower", "padded"}
ClassifierFailed == [text |-> "raised", form |-> "raised"]
ClassifierOutputs ==
    [text : ClassifierTexts, form : ClassifierForms] \cup {ClassifierFailed}

\* _classify_query without strip() and upper(): only an answer in the exact
\* form matches a label.
ClassifyQueryExact(c) ==
    IF c = ClassifierFailed THEN "general"
    ELSE CASE c.form = "exact" /\ c.text = "SIMPLE_TOOL" -> "simple_tool"
           [] c.form = "exact" /\ c.text = "AGENTIC_RAG" -> "agentic_rag"
           [] c.form = "exact" /\ c.text = "DEEP_RESEARCH" -> "deep_research"
           [] c.form = "exact" /\ c.text = "SAST" -> "sast"
           [] c.form = "exact" /\ c.text = "SSRF" -> "ssrf"
           [] OTHER -> "general"

\* result.content.strip().upper(): the form is removed, the text stays.
Classification(c) == c.text

\* _classify_query: the QueryType for the classifier's answer; GENERAL when
\* no label matches or the delegate raised.
ClassifyQuery(c) ==
    IF c = ClassifierFailed THEN "general"
    ELSE CASE Classification(c) = "SIMPLE_TOOL" -> "simple_tool"
           [] Classification(c) = "AGENTIC_RAG" -> "agentic_rag"
           [] Classification(c) = "DEEP_RESEARCH" -> "deep_research"
           [] Classification(c) = "SAST" -> "sast"
           [] Classification(c) = "SSRF" -> "ssrf"
           [] OTHER -> "general"

\* The branches of UnifiedChat.process_message: the agent a QueryType goes to.
CurrentAgent(query_type) ==
    CASE query_type \in {"simple_tool", "general"} -> "tool"
      [] query_type = "agentic_rag" -> "rag"
      [] query_type = "deep_research" -> "research"
      [] query_type = "sast" -> "sast"
      [] query_type = "ssrf" -> "ssrf"
      [] OTHER -> "tool"

\* The agents whose process_message is one call for the dispatcher.
PlainAgents == {"tool", "sast", "ssrf"}

\* process_message asks the classifier delegate, which answers or raises.
UnifiedClassifierAnswers ==
    /\ status = "idle"
    /\ \E c \in ClassifierOutputs : update' = [content |-> c]
    /\ status' = "classifying"
    /\ question' = [by |-> "classifier", msg |-> HumanMessage("query")]
    /\ result' = "none"
    /\ UNCHANGED <<pipeline, current, steps, state>>

\* process_message classifies the answer and calls the process_message of the
\* agent of the matching branch; that call builds the agent's initial state.
UnifiedDispatch ==
    /\ status = "classifying"
    /\ LET query_type == ClassifyQuery(update.content)
           agent == CurrentAgent(query_type)
       IN  /\ pipeline' = agent
           /\ update' = [query_type |-> query_type, current_agent |-> agent]
           /\ current' = CASE agent = "rag" -> "generate_query_or_respond"
                           [] agent = "research" -> "research_manager"
                           [] OTHER -> "process_message"
           /\ \E chat_history \in TwoHistories :
                 state' = CASE agent = "rag" ->
                                  RagInitialState(chat_history, DefaultMaxRetries)
                            [] agent = "research" -> ResearchInitialState(chat_history)
                            [] OTHER -> Discarded
    /\ status' = "running"
    /\ steps' = 0
    /\ UNCHANGED <<question, result>>

\* The tool, SAST and SSRF agents catch what their work raises: their
\* process_message always returns a text.
PlainAgentReturns ==
    /\ status = "running"
    /\ pipeline \in PlainAgents
    /\ \E went_wrong \in BOOLEAN :
          result' = IF went_wrong THEN "agent_error_text" ELSE "agent_answer"
    /\ status' = "done"
    /\ steps' = steps + 1
    /\ UNCHANGED <<pipeline, current, state, update, question>>

\* UnifiedChat.process_message returns what the agent returned, or its own
\* error text when the agent's process_message raised.
UnifiedReturn ==
    /\ status \in {"done", "exhausted", "failed"}
    /\ status' = "idle"
    /\ result' = IF result = "raised" THEN "unified_error" ELSE result
    /\ pipeline' = "none"
    /\ current' = "none"
    /\ steps' = 0
    /\ state' = Discarded
    /\ update' = NoUpdate
    /\ question' = NoQuestion

\* The steps of a dispatched call. With the retry limit process_message passes
\* and plans of up to MaxQuestions questions no run comes near a step ceiling.
DispatchNext ==
    \/ UnifiedClassifierAnswers
    \/ UnifiedDispatch
    \/ PlainAgentReturns
    \/ RagGenerate
    \/ RagRetrieve
    \/ RagEvaluate
    \/ RagRewrite
    \/ RagSynthesize
    \/ ResearchPlanStep
    \/ ResearchResearch
    \/ ResearchEvaluate
    \/ ResearchFinalize
    \/ NodeFails
    \/ UnifiedReturn

DispatchSpec == Init /\ [][DispatchNext]_vars

\* The pipeline the claim names for a classifier answer.
DocumentedPipeline(c) ==
    IF c = ClassifierFailed THEN "tool"
    ELSE IF c.text \in {"SIMPLE_TOOL", "GENERAL"} THEN "tool"
    ELSE IF c.text = "AGENTIC_RAG" THEN "rag"
    ELSE IF c.text = "DEEP_RESEARCH" THEN "research"
    ELSE IF c.text = "SAST" THEN "sast"
    ELSE IF c.text = "SSRF" THEN "ssrf"
    ELSE "tool"

\* C33: every query is dispatched to exactly one pipeline, the one of the
\* classifier's label (SIMPLE_TOOL and GENERAL to the tool agent, AGENTIC_RAG
\* to RAG, DEEP_RESEARCH to research, SAST to the SAST agent, SSRF to the SSRF
\* agent), and to the tool agent when the label is none of these or the
\* classifier raised: once the classifier has answered, the dispatch can
\* always be taken, it is the only step taken, it starts the documented
\* pipeline, and the call stays with that pipeline until it returns.
C33_DispatchByLabel ==
    /\ [](status = "classifying" => ENABLED UnifiedDispatch)
    /\ [][status = "classifying" =>
            /\ status' = "running"
            /\ pipeline' = DocumentedPipeline(update.content)
            /\ update'.current_agent = pipeline'
            /\ result' = "none"]_vars
    /\ [][(status \in {"running", "done", "exhausted", "failed"}
            /\ status' # "idle") => pipeline' = pipeline]_vars
    /\ [](status \in {"running", "done", "exhausted", "failed"} =>
            pipeline \in {"tool", "rag", "research", "sast", "ssrf"})

\* The classifier raised or answered with no label, the query went to the tool
\* agent under QueryType GENERAL, and the tool agent answered.
C33_Witness ==
    /\ status = "done"
    /\ pipeline = "tool"
    /\ update = [query_type |-> "general", current_agent |-> "tool"]
    /\ result = "agent_answer"

(***************************************************************************)
(* Graph assembly (UnifiedChat.initialize builds the RAG graph, then the   *)
(* research graph).                                                        *)
(***************************************************************************)
START == "__start__"

AddNodeCall(n) == [op |-> "add_node", node |-> n, to |-> {}]
AddEdgeCall(from, to) == [op |-> "add_edge", node |-> from, to |-> {to}]
\* add_conditional_edges with the targets of its label table.
AddConditionalEdgesCall(from, targets) ==
    [op |-> "add_conditional_edges", node |-> from, to |-> targets]

\* _create_graph with the edge out of query_rewriter left out.
BuilderCallsWithoutRewriterEdge(p) ==
    IF p = "rag"
    THEN << AddNodeCall("generate_query_or_respond"),
            AddNodeCall("retrieve_documents"),
            AddNodeCall("evaluate_documents"),
            AddNodeCall("synthesize_answer"),
            AddNodeCall("query_rewriter"),
            AddEdgeCall(START, "generate_query_or_respond"),
            AddConditionalEdgesCall("generate_query_or_respond",
                                    {"retrieve_documents", END}),
            AddEdgeCall("retrieve_documents", "evaluate_documents"),
            AddConditionalEdgesCall("evaluate_documents",
                                    {"synthesize_answer", "query_rewriter"}),
            AddEdgeCall("synthesize_answer", END) >>
    ELSE << AddNodeCall("research_manager"),
            AddNodeCall("specialized_research"),
            AddNodeCall("evaluate"),
            AddNodeCall("finalizer"),
            AddEdgeCall(START, "research_manager"),
            AddEdgeCall("research_manager", "specialized_research"),
            AddEdgeCall("specialized_research", "evaluate"),
            AddConditionalEdgesCall("evaluate", {"specialized_research", "finalizer"}),
            AddEdgeCall("finalizer", END) >>

\* The calls _create_graph and _create_workflow make on their builder, in
\* source order.
BuilderCalls(p) ==
    IF p = "rag"
    THEN << AddNodeCall("generate_query_or_respond"),
            AddNodeCall("retrieve_documents"),
            AddNodeCall("evaluate_documents"),
            AddNodeCall("synthesize_answer"),
            AddNodeCall("query_rewriter"),
            AddEdgeCall(START, "generate_query_or_respond"),
            AddConditionalEdgesCall("generate_query_or_respond",
                                    {"retrieve_documents", END}),
            AddEdgeCall("retrieve_documents", "evaluate_documents"),
            AddConditionalEdgesCall("evaluate_documents",
                                    {"synthesize_answer", "query_rewriter"}),
            AddEdgeCall("query_rewriter", "generate_query_or_respond"),
            AddEdgeCall("synthesize_answer", END) >>
    ELSE << AddNodeCall("research_manager"),
            AddNodeCall("specialized_research"),
            AddNodeCall("evaluate"),
            AddNodeCall("finalizer"),
            AddEdgeCall(START, "research_manager"),
            AddEdgeCall("research_manager", "specialized_research"),
            AddEdgeCall("specialized_research", "evaluate"),
            AddConditionalEdgesCall("evaluate", {"specialized_research", "finalizer"}),
            AddEdgeCall("finalizer", END) >>

\* StateGraph(...): a builder without nodes and edges.
StateGraph == [nodes |-> {}, edges |-> {}, branches |-> {}]

\* compile()'s validation: the start node is set, every node an edge or a
\* label table names is declared, and every declared node has an outgoing
\* edge or a label table.
Validates(g) ==
    /\ \E e \in g.edges : e[1] = START
    /\ \A e \in g.edges \cup g.branches :
          /\ e[1] \in g.nodes \cup {START}
          /\ e[2] \in g.nodes \cup {END}
    /\ \A n \in g.nodes : \E e \in g.edges \cup g.branches : e[1] = n

\* The builder call due next.
Call == BuilderCalls(pipeline)[steps + 1]

Building(op) ==
    /\ status = "building"
    /\ steps < Len(BuilderCalls(pipeline))
    /\ Call.op = op

Built(g) ==
    /\ state' = g
    /\ steps' = steps + 1
    /\ current' = Call.op
    /\ UNCHANGED <<pipeline, status, update, question, result>>

\* initialize() starts with the RAG agent's builder.
Initialize ==
    /\ status = "constructed"
    /\ status' = "building"
    /\ pipeline' = "rag"
    /\ state' = StateGraph
    /\ UNCHANGED <<current, steps, update, question, result>>

AddNode ==
    /\ Building("add_node")
    /\ Built([state EXCEPT !.nodes = @ \cup {Call.node}])

AddEdge ==
    /\ Building("add_edge")
    /\ Built([state EXCEPT !.edges = @ \cup {<<Call.node, t>> : t \in Call.to}])

AddConditionalEdges ==
    /\ Building("add_conditional_edges")
    /\ Built([state EXCEPT !.branches = @ \cup {<<Call.node, t>> : t \in Call.to}])

\* compile(): a graph that does not validate is a configuration error; after
\* the RAG graph the research graph is built, after that the chat is ready.
Compile ==
    /\ status = "building"
    /\ steps = Len(BuilderCalls(pipeline))
    /\ current' = "compile"
    /\ steps' = 0
    /\ IF ~Validates(state)
       THEN /\ status' = "config_error"
            /\ UNCHANGED <<pipeline, state>>
       ELSE IF pipeline = "rag"
       THEN /\ pipeline' = "research"
            /\ state' = StateGraph
            /\ UNCHANGED status
       ELSE /\ pipeline' = "none"
            /\ state' = Discarded
            /\ status' = "idle"
    /\ UNCHANGED <<update, question, result>>

CompileInit ==
    /\ pipeline = "none"
    /\ status = "constructed"
    /\ current = "none"
    /\ steps = 0
    /\ state = Discarded
    /\ update = NoUpdate
    /\ question = NoQuestion
    /\ result = "none"

CompileNext ==
    \/ Initialize
    \/ AddNode
    \/ AddEdge
    \/ AddConditionalEdges
    \/ Compile
    \/ DispatchNext

CompileSpec == CompileInit /\ [][CompileNext]_vars

\* C34: neither graph is a configuration error at compile. When compile is
\* due on either builder, an edge leaves START, every node named by an edge or
\* by a label table is a declared node (or END as a target), and every
\* declared node has an edge or a label table leaving it; compile then goes on
\* to the next graph or to the ready chat, never to a configuration error.
C34_GraphsCompile ==
    /\ [](status # "config_error")
    /\ [](status = "building" /\ steps = Len(BuilderCalls(pipeline)) =>
            /\ \E n \in state.nodes : <<START, n>> \in state.edges
            /\ \A e \in state.edges : e[1] \in state.nodes \cup {START}
                                      /\ e[2] \in state.nodes \cup {END}
            /\ \A e \in state.branches : e[1] \in state.nodes
                                         /\ e[2] \in state.nodes \cup {END}
            /\ \A n \in state.nodes :
                  \E e \in state.edges \cup state.branches : e[1] = n
            /\ ENABLED Compile)
    /\ [][status = "building" /\ current' = "compile" =>
            \/ pipeline = "rag" /\ pipeline' = "research" /\ status' = "building"
            \/ pipeline = "research" /\ status' = "idle"]_vars

\* The RAG graph has compiled and the research builder is complete: four
\* nodes, four edges and the label table of evaluate, with compile due.
C34_Witness ==
    /\ status = "building"
    /\ pipeline = "research"
    /\ steps = Len(BuilderCalls("research"))
    /\ state.nodes = {"research_manager", "specialized_research", "evaluate",
                      "finalizer"}
    /\ Cardinality(state.edges) = 4
    /\ state.branches = {<<"evaluate", "specialized_research">>,
                         <<"evaluate", "finalizer">>}

\* The label table registered for the router after evaluate.
EvaluateTable ==
    [research |-> "specialized_research", finalize |-> "finalizer"]

\* C35: the research router never meets a label outside its table. The state
\* starts with next_step = "research_manager", which is no key of the table,
\* and keeps it until evaluate first runs; every execution of evaluate leaves
\* next_step at "research" or "finalize", the router that follows reads that
\* value, and the node due next is the table's entry for it.
C35_RouterLabelInTable ==
    /\ [](ResearchActive /\ status = "running" /\ Evaluations = 0 =>
            /\ state.next_step = "research_manager"
            /\ state.next_step \notin DOMAIN EvaluateTable)
    /\ [](ResearchActive /\ Evaluations > 0 => state.next_step \in DOMAIN EvaluateTable)
    /\ [][ResearchActive /\ NodeRan("evaluate") =>
            /\ state'.next_step \in DOMAIN EvaluateTable
            /\ current' = EvaluateTable[state'.next_step]
            /\ status' = "running"]_vars

\* The first evaluation of a run left "research" where "research_manager"
\* stood, and the router sent the run back to the research node.
C35_Witness ==
    /\ ResearchActive
    /\ status = "running"
    /\ steps = 3
    /\ Evaluations = 1
    /\ state.next_step = "research"
    /\ current = "specialized_research"

\* The research node is due with a question to research.
ResearchDue ==
    /\ ResearchActive
    /\ status = "running"
    /\ current = "specialized_research"
    /\ ~ResearchDone(state)

\* The step of the research node is all or nothing: when its delegate fails
\* the plan and the report are as they were, otherwise the question is marked
\* completed, its section filled and the index advanced in this one step.
ResearchStepAllOrNothing ==
    [][ResearchDue /\ steps' = steps + 1 =>
          \/ /\ status' = "failed"
             /\ state' = state
          \/ /\ status' = "running"
             /\ state'.research_plan.questions[QuestionAt].completed
             /\ state'.report.detailed_analysis[QuestionAt].content # None
             /\ state'.research_plan.current_question_index =
                   state.research_plan.current_question_index + 1]_vars

\* No question is marked completed without the index past it and its section
\* filled.
CompletedMeansResearched ==
    PlanMade =>
        \A i \in 1..Len(Questions) :
            Questions[i].completed =>
                /\ i <= state.research_plan.current_question_index
                /\ Sections[i].content # None

\* C36, as stated: the research node's update is all or nothing (a failing
\* delegate leaves the completed flag, the section and the index unchanged, a
\* succeeding one updates all three in the same step), so no state between
\* node executions has a question marked completed without the index advanced
\* past it or without its section filled.
C36_AllOrNothing ==
    /\ ResearchStepAllOrNothing
    /\ [](CompletedMeansResearched)

\* C37, as stated: in every state of a research run after the plan step, for
\* every question i (counted from 0), questions[i].completed is true exactly
\* when i < current_question_index, and exactly then detailed_analysis[i]
\* has its content filled.
C37_ProgressRecordsAgree ==
    PlanMade =>
        \A i \in 1..Len(Questions) :
            /\ Questions[i].completed = (i - 1 < state.research_plan.current_question_index)
            /\ Questions[i].completed = (Sections[i].content # None)

\* The positions of the log after the triggering user message that hold a
\* rewritten query.
RewrittenSince ==
    {i \in (state.current_query_index + 2)..Len(state.messages) :
        state.messages[i].content = "rewritten"}

\* C38: in every state of a RAG run retry_count is the number of executions of
\* the rewrite node so far (it is 0 when the run starts, one more after each
\* rewrite step and the same after any other step), and that is the number of
\* rewritten-query messages in the log after the triggering user message, each
\* from a step of its own; the log holds no rewritten query before it.
C38_RetryCountCountsRewrites ==
    /\ [](RagActive =>
            /\ state.retry_count = Cardinality(RewrittenSince)
            /\ state.retry_count =
                  Cardinality({state.messages[i].at : i \in RewrittenSince})
            /\ state.retry_count = RewriteCount(state)
            /\ state.messages[state.current_query_index + 1] = HumanMessage("query"))
    /\ [][(status # "running" /\ status' = "running" /\ pipeline' = "rag") =>
            state'.retry_count = 0]_vars
    /\ [][RagActive /\ SomeNodeRan =>
            state'.retry_count =
                state.retry_count + (IF current = "query_rewriter" THEN 1 ELSE 0)]_vars

\* A run that followed a history of four entries has rewritten its query
\* twice: retry_count is 2 and two rewritten queries stand behind the
\* triggering message.
C38_Witness ==
    /\ RagActive
    /\ status = "running"
    /\ state.current_query_index = 4
    /\ state.retry_count = 2
    /\ Cardinality(RewrittenSince) = 2
    /\ current = "generate_query_or_respond"

\* C39: when a RAG run has reached END, the last message of the log was
\* produced by the run's last step, and it is either the response of
\* generate_or_respond asking for no retrieval or the answer of synthesize:
\* an AI message without tool calls, never a tool output, a rewritten query or
\* a message the call started with; it is what process_message returns.
C39_AnswerFromGenerateOrSynthesize ==
    RagActive /\ status = "done" =>
        /\ Last(state.messages).at = steps
        /\ Last(state.messages).type = "ai"
        /\ Last(state.messages).tool_calls = 0
        /\ NodeOf(Last(state.messages)) \in
              {"generate_query_or_respond", "synthesize_answer"}
        /\ Last(state.messages).content \notin {"docs", "rewritten", "tool_call"}
        /\ Len(state.messages) > state.current_query_index + 1
        /\ result = Last(state.messages).content

\* A run ended with a direct response of generate_or_respond to a rewritten
\* query: tool output and rewritten query lie in the log, the answer is last.
C39_Witness ==
    /\ RagActive
    /\ status = "done"
    /\ steps = 5
    /\ state.retry_count = 1
    /\ Last(state.messages) = AIMessage("direct", 0, 5)
    /\ state.messages[Len(state.messages) - 1].content = "rewritten"
    /\ result = "direct"

(***************************************************************************)
(* The SAST agent's clone of the repository under analysis (SastAgent).    *)
(***************************************************************************)
MaxRepos == 3   \* distinct repository names the messages mention

\* The clone directories /tmp/sast_<repo_name>, one per repository name.
CloneDirs == 1..MaxRepos

\* A message holds a GitHub URL, whose repository name gives the clone
\* directory, or no URL that the pattern matches.
NoUrl == 0
\* current_repo_path when no repository is tracked (None in the code).
NoPath == 0
SastMessages == CloneDirs \cup {NoUrl}

\* The agent after initialize(): no repository tracked, and no clone of its
\* making on disk.
SastAgentState == [current_repo_path |-> NoPath, disk |-> {}]

SastInit ==
    /\ pipeline = "none"
    /\ status = "idle"
    /\ current = "none"
    /\ steps = 0
    /\ state = SastAgentState
    /\ update = NoUpdate
    /\ question = NoQuestion
    /\ result = "none"

\* process_message with a message without a valid URL: the usage text.
SastUsage ==
    /\ status = "idle"
    /\ pipeline' = "sast"
    /\ status' = "done"
    /\ current' = "return"
    /\ steps' = 0
    /\ update' = [github_url |-> NoUrl]
    /\ result' = "usage"
    /\ UNCHANGED <<state, question>>

\* process_message with a valid URL: clone_dir is computed, cleanup is next.
SastProcessMessage ==
    /\ status = "idle"
    /\ \E url \in CloneDirs : update' = [github_url |-> url, clone_dir |-> url]
    /\ pipeline' = "sast"
    /\ status' = "running"
    /\ current' = "cleanup"
    /\ steps' = 0
    /\ result' = "none"
    /\ UNCHANGED <<state, question>>

\* cleanup(): the tracked directory, if it exists, is removed and the field
\* reset; when rmtree raises, the error is printed and both stay.
Cleanup(s, removed) ==
    IF s.current_repo_path # NoPath /\ s.current_repo_path \in s.disk /\ removed
    THEN [current_repo_path |-> NoPath, disk |-> s.disk \ {s.current_repo_path}]
    ELSE s

SastCleanup ==
    /\ pipeline = "sast" /\ status = "running" /\ current = "cleanup"
    /\ \E removed \in BOOLEAN : state' = Cleanup(state, removed)
    /\ current' = "clone"
    /\ steps' = steps + 1
    /\ UNCHANGED <<pipeline, status, update, question, result>>

\* The try block around the clone: an existing clone_dir is removed, the
\* repository cloned and then current_repo_path set; when rmtree or the clone
\* raises, process_message returns the error text (a failed clone leaves no
\* directory behind).
SastClone ==
    /\ pipeline = "sast" /\ status = "running" /\ current = "clone"
    /\ steps' = steps + 1
    /\ \E removed \in BOOLEAN, cloned \in BOOLEAN :
          IF update.clone_dir \in state.disk /\ ~removed
          THEN /\ state' = state
               /\ status' = "done"
               /\ current' = "return"
               /\ result' = "clone_error"
          ELSE IF ~cloned
          THEN /\ state' = [state EXCEPT !.disk = @ \ {update.clone_dir}]
               /\ status' = "done"
               /\ current' = "return"
               /\ result' = "clone_error"
          ELSE /\ state' = [current_repo_path |-> update.clone_dir,
                            disk |-> state.disk \cup {update.clone_dir}]
               /\ status' = "running"
               /\ current' = "analyse"
               /\ result' = result
    /\ UNCHANGED <<pipeline, update, question>>

\* The analysis: the agent executor's report, or the error text when it
\* raised; the clone is kept for the next call to clean up.
SastAnalyse ==
    /\ pipeline = "sast" /\ status = "running" /\ current = "analyse"
    /\ \E raised \in BOOLEAN :
          result' = IF raised THEN "analysis_error" ELSE "analysis_report"
    /\ status' = "done"
    /\ current' = "return"
    /\ steps' = steps + 1
    /\ UNCHANGED <<pipeline, state, update, question>>

\* process_message has returned; the agent and the disk stay as they are.
SastReturn ==
    /\ pipeline = "sast" /\ status = "done"
    /\ status' = "idle"
    /\ current' = "none"
    /\ steps' = 0
    /\ update' = NoUpdate
    /\ UNCHANGED <<pipeline, state, question, result>>

SastNext ==
    \/ SastUsage
    \/ SastProcessMessage
    \/ SastCleanup
    \/ SastClone
    \/ SastAnalyse
    \/ SastReturn

SastSpec == SastInit /\ [][SastNext]_vars

SastActive == pipeline = "sast"

\* The part of C40 about the field: current_repo_path changes to a directory
\* only in the step that cloned into it, and the call without a valid URL
\* changes neither the field nor the disk.
RepoPathSetAfterClone ==
    [][SastActive \/ pipeline' = "sast" =>
          /\ (state'.current_repo_path # state.current_repo_path
              /\ state'.current_repo_path # NoPath) =>
                 /\ current = "clone"
                 /\ state'.current_repo_path = update.clone_dir
                 /\ update.clone_dir \in state'.disk
          /\ result' = "usage" => state' = state]_vars

\* C40, as stated: across the calls on one SAST agent at most one clone of
\* its making exists and it is the tracked one; each call with a valid URL has
\* removed the previously tracked clone when it comes to cloning;
\* current_repo_path is set to the new clone directory only by a successful
\* clone; and a call without a valid URL returns the usage text and leaves
\* current_repo_path and the clone as they were.
C40_OneTrackedClone ==
    /\ [](SastActive => Cardinality(state.disk) <= 1)
    /\ [](SastActive /\ state.disk # {} => state.disk = {state.current_repo_path})
    /\ [](SastActive /\ status = "running" /\ current = "clone" =>
            /\ state.current_repo_path = NoPath
            /\ state.disk \subseteq {update.clone_dir})
    /\ RepoPathSetAfterClone

====
